---- MODULE Spec2Model ----
(***************************************************************************)
(* A model of morphology_wizard's growth engine: Instruction::check,       *)
(* create (lib.rs) with its WorkingData / PotentialSegment priority queue, *)
(* and the dendrite diameter post-processing.                              *)
(*                                                                         *)
(* Numbers.  The program works on f64.  The model works on integers:       *)
(* coordinates are drawn from point sets whose pairwise distances are      *)
(* integers, so linalg::distance is exact; angles are counted in units of  *)
(* pi/2; f64::INFINITY is the number INFINITY, larger than every length    *)
(* the model can build.  Node indices are 0-based as in the program, so    *)
(* the node with index i is nodes[i + 1].  Option<T> is a sequence of      *)
(* length 0 (None) or 1 (Some).                                            *)
(***************************************************************************)
EXTENDS Integers, Sequences, FiniteSets, Bags, TLC

VARIABLES
    instructions,   \* the argument of create: a sequence of Instruction
    kd_inclusive,   \* whether the kd-tree radius query returns points at exactly the radius
    pc,             \* position inside create
    panic_message,  \* the message of the panic that ended create, "" if none
    instr_index,    \* index of the instruction the for loop is at
    nodes,          \* Vec<Node>
    sections,       \* Vec<(u32, u32)>
    section_start,  \* create's section_start of the instruction being executed
    occupied,       \* WorkingData::occupied of the instruction being executed
    potential,      \* WorkingData::potential, a bag of PotentialSegment
    swc_file,       \* the value export_swc returned
    save_file,      \* the argument of import_save
    import_pc,      \* position inside import_save
    import_out,     \* the instructions import_save returned
    region,         \* the CarrierPoints generate_points is called on
    gp_pc,          \* position inside generate_points
    gp_carrier_points, \* generate_points's oversampled carrier_points
    neighbors,      \* generate_points's neighbors still to visit
    discard,        \* generate_points's discard set
    generated,      \* the value generate_points returned
    interp_pc,      \* position inside the interpolation of calculate_quadratic_diameters
    interp_query,   \* the path_length of the terminal node
    interp_morph,   \* the morphology of the terminal node's instruction
    interp_out,     \* the interpolated polynomial and the polynomial after scale and offset
    app_instructions,   \* AppState::instructions
    app_carrier_points, \* AppState::carrier_points, a map from names to regions
    points_cache,   \* AppState::points_cache, a map from (instruction, region) names to points
    app_nodes,      \* AppState::nodes, kept as the instructions create was given
    viewer          \* whether the viewer window exists

\* The state of import_save.
import_vars == <<save_file, import_pc, import_out>>

\* The state of generate_points.
points_vars == <<region, gp_pc, gp_carrier_points, neighbors, discard, generated>>

\* The state of one terminal's polynomial in calculate_quadratic_diameters.
interp_vars == <<interp_pc, interp_query, interp_morph, interp_out>>

\* The state of the functions that call neither create, import_save nor
\* generate_points.
aux_vars == <<interp_vars, app_instructions, app_carrier_points, points_cache, app_nodes, viewer>>

\* The state of the functions create does not call.
other_vars == <<import_vars, points_vars, aux_vars>>

vars == <<instructions, kd_inclusive, pc, panic_message, instr_index, nodes, sections,
          section_start, occupied, potential, swc_file, import_vars, points_vars, aux_vars>>

----------------------------------------------------------------------------
(* Bounds of the model. *)

\* Most carrier points of the growth instructions of a program.
MaxPoints == 3

----------------------------------------------------------------------------
(* Program constants. *)

\* u32::MAX, the parent_index of a root.  TLC's integers end at 2^31 - 1, which
\* stands for it: like u32::MAX it is larger than every index the model builds.
U32_MAX == 2147483647
\* f64::INFINITY
INFINITY == 1000
\* std::f64::consts::PI, in units of pi/2
PI == 2

----------------------------------------------------------------------------
(* linalg.rs *)

sub(a, b) == <<b[1] - a[1], b[2] - a[2], b[3] - a[3]>>

dot(a, b) == a[1] * b[1] + a[2] * b[2] + a[3] * b[3]

\* f64::sqrt, exact on the perfect squares the model's point sets produce.
sqrt(n) == CHOOSE r \in 0..n : r * r <= n /\ (r + 1) * (r + 1) > n

mag(x) == sqrt(dot(x, x))

distance(a, b) == mag(sub(a, b))

\* cos of an angle given in units of pi/2: cos 0, cos pi/2, cos pi.
cos(k) == 1 - k

\* linalg::angle(a, b) > maximum_angle.  angle is acos(dot/|a|/|b|); acos is
\* decreasing, so the comparison is dot/|a|/|b| < cos(maximum_angle).  A zero
\* vector makes the quotient NaN, and every comparison with NaN is false.
angle_gt(a, b, maximum_angle) ==
    /\ mag(a) # 0
    /\ mag(b) # 0
    /\ dot(a, b) < cos(maximum_angle) * mag(a) * mag(b)

----------------------------------------------------------------------------
(* lib.rs: Morphology, Instruction, Node *)

None == <<>>

Some(x) == <<x>>

is_some(o) == Len(o) = 1

unwrap(o) == o[1]

is_finite(x) == x # INFINITY

f64_max(a, b) == IF a >= b THEN a ELSE b

\* Morphology { .. }, with the two fields formats.rs adds to it.
Morphology(bf, ed, ea, bd, ba, ebb, mb, md, dt, msl, rac) ==
    [balancing_factor |-> bf,
     extension_distance |-> ed,
     extension_angle |-> ea,
     branch_distance |-> bd,
     branch_angle |-> ba,
     extend_before_branch |-> ebb,
     maximum_branches |-> mb,
     minimum_diameter |-> md,
     diameter_taper |-> dt,
     maximum_segment_length |-> msl,
     reach_all_carrier_points |-> rac]

Instruction(morphology, soma_diameter, carrier_points, roots) ==
    [morphology |-> morphology,
     soma_diameter |-> soma_diameter,
     carrier_points |-> carrier_points,
     roots |-> roots]

is_soma(instr) == ~is_some(instr.morphology)

Morphology_is_dendrite(morphology) == ~morphology.extend_before_branch

is_dendrite(instr) ==
    IF is_some(instr.morphology)
    THEN Morphology_is_dendrite(unwrap(instr.morphology))
    ELSE FALSE

is_axon(instr) ==
    IF is_some(instr.morphology)
    THEN unwrap(instr.morphology).extend_before_branch
    ELSE FALSE

new_root(coordinates, diameter, instruction_index) ==
    [coordinates |-> coordinates,
     diameter |-> diameter,
     parent_index |-> U32_MAX,
     instruction_index |-> instruction_index,
     num_children |-> 0,
     path_length |-> 0]

new_segment(coordinates, diameter, parent_index, instruction_index, path_length) ==
    [coordinates |-> coordinates,
     diameter |-> diameter,
     parent_index |-> parent_index,
     instruction_index |-> instruction_index,
     num_children |-> 0,
     path_length |-> path_length]

is_root(node) == node.parent_index = U32_MAX

is_segment(node) == node.parent_index # U32_MAX

is_terminal(node) == node.num_children = 0

----------------------------------------------------------------------------
(* lib.rs: Instruction::check *)

\* check_morphology with minimum_diameter >= 0.0 in place of > 0.0.
check_morphology_zero_diameter(morphology) ==
    IF ~(morphology.balancing_factor >= 0)
    THEN "morphology.balancing_factor >= 0.0"
    ELSE IF ~(morphology.extension_distance >= 0)
    THEN "morphology.extension_distance >= 0.0"
    ELSE IF ~(morphology.branch_distance >= 0)
    THEN "morphology.branch_distance >= 0.0"
    ELSE IF ~(morphology.extension_angle \in 0..PI)
    THEN "(0.0..=PI).contains(&morphology.extension_angle)"
    ELSE IF ~(morphology.branch_angle \in 0..PI)
    THEN "(0.0..=PI).contains(&morphology.branch_angle)"
    ELSE IF ~(morphology.minimum_diameter >= 0)
    THEN "morphology.minimum_diameter > 0.0"
    ELSE IF ~(morphology.diameter_taper >= 0)
    THEN "morphology.diameter_taper >= 0.0"
    ELSE ""

\* The message of the first assertion on the fields of the morphology that
\* fails, "" if none does.
check_morphology(morphology) ==
    IF ~(morphology.balancing_factor >= 0)
    THEN "morphology.balancing_factor >= 0.0"
    ELSE IF ~(morphology.extension_distance >= 0)
    THEN "morphology.extension_distance >= 0.0"
    ELSE IF ~(morphology.branch_distance >= 0)
    THEN "morphology.branch_distance >= 0.0"
    ELSE IF ~(morphology.extension_angle \in 0..PI)
    THEN "(0.0..=PI).contains(&morphology.extension_angle)"
    ELSE IF ~(morphology.branch_angle \in 0..PI)
    THEN "(0.0..=PI).contains(&morphology.branch_angle)"
    ELSE IF ~(morphology.minimum_diameter > 0)
    THEN "morphology.minimum_diameter > 0.0"
    ELSE IF ~(morphology.diameter_taper >= 0)
    THEN "morphology.diameter_taper >= 0.0"
    ELSE ""

\* roots_precede with <= in place of <: an instruction may name itself.
roots_precede_or_self(index, instr) ==
    \A k \in 1..Len(instr.roots) : instr.roots[k] <= index

\* instr.roots.iter().all(|&root_instr| root_instr < instr_index as u32)
roots_precede(index, instr) ==
    \A k \in 1..Len(instr.roots) : instr.roots[k] < index

\* The message of the first assertion of the loop body that fails on this
\* instruction, "" if none does.
check_instr(index, instr) ==
    IF is_some(instr.morphology)
    THEN IF check_morphology(unwrap(instr.morphology)) # ""
         THEN check_morphology(unwrap(instr.morphology))
         ELSE IF ~roots_precede(index, instr)
         THEN "instr.roots.iter().all(|&root_instr| root_instr < instr_index as u32)"
         ELSE IF is_some(instr.soma_diameter)
         THEN "instr.soma_diameter.is_none()"
         ELSE ""
    ELSE IF instr.roots # <<>>
         THEN "Missing morphology parameters"
         ELSE IF ~is_some(instr.soma_diameter)
         THEN "Missing soma diameter"
         ELSE IF ~(unwrap(instr.soma_diameter) > 0)
         THEN "soma_diameter > 0.0"
         ELSE ""

\* Instruction::check: the message of the first panic, "" when the list passes.
check(instrs) ==
    LET bad == {i \in 1..Len(instrs) : check_instr(i - 1, instrs[i]) # ""} IN
    IF bad = {} THEN ""
    ELSE LET first == CHOOSE i \in bad : \A j \in bad : i <= j IN
         check_instr(first - 1, instrs[first])

----------------------------------------------------------------------------
(* lib.rs: WorkingData and PotentialSegment *)

PotentialSegment(branch_num, priority, carrier_index, parent_index) ==
    [branch_num |-> branch_num,
     priority |-> priority,
     carrier_index |-> carrier_index,
     parent_index |-> parent_index]

\* WorkingData::priority
priority(morphology, parent_node, segment_length) ==
    LET path_length == segment_length + parent_node.path_length IN
    segment_length + morphology.balancing_factor * path_length

\* u32::cmp and f64::total_cmp
cmp(a, b) == IF a < b THEN "Less" ELSE IF a = b THEN "Equal" ELSE "Greater"

\* Ordering::then
then(first, second) == IF first = "Equal" THEN second ELSE first

\* Ordering::reverse
reverse(o) == IF o = "Less" THEN "Greater" ELSE IF o = "Greater" THEN "Less" ELSE "Equal"

\* Ord_cmp without the reversal.
Ord_cmp_not_reversed(self, other) ==
    LET branch_ord == cmp(self.branch_num, other.branch_num)
        priority_ord == cmp(self.priority, other.priority)
    IN  then(branch_ord, priority_ord)

\* impl Ord for PotentialSegment
Ord_cmp(self, other) ==
    LET branch_ord == cmp(self.branch_num, other.branch_num)
        priority_ord == cmp(self.priority, other.priority)
    IN  reverse(then(branch_ord, priority_ord))

\* The segments BinaryHeap::pop may return: the greatest under Ord.  Which of
\* several equal ones it returns depends on the heap's layout.
pop_candidates(heap) ==
    {seg \in BagToSet(heap) : \A other \in BagToSet(heap) : Ord_cmp(seg, other) # "Less"}

\* BinaryHeap::push
push(heap, seg) == heap (+) SetToBag({seg})

\* The heap after seg was popped.
remove(heap, seg) == heap (-) SetToBag({seg})

\* ImmutableKdTree::within_unsorted::<SquaredEuclidean>: the items within the
\* squared radius of the query.  Whether an item at exactly the radius is
\* returned is the library's choice (inclusive).
within_unsorted(carrier_points, query, radius_squared, inclusive) ==
    {c \in 0..(Len(carrier_points) - 1) :
        LET d == sub(query, carrier_points[c + 1])
            dist == dot(d, d)
        IN  dist < radius_squared \/ (inclusive /\ dist = radius_squared)}

\* BitBox::iter_zeros
iter_zeros(occ) == {c \in 0..(Len(occ) - 1) : ~occ[c + 1]}

\* The permissive radius consider_all_potential_segments searches.
consider_maximum_distance(morphology, parent_node) ==
    IF is_root(parent_node)
    THEN morphology.extension_distance
    ELSE IF parent_node.num_children = 0
    THEN f64_max(morphology.extension_distance, morphology.branch_distance)
    ELSE morphology.branch_distance

\* The branch_num consider_all_potential_segments enqueues with.
consider_branch_num(morphology, parent_node) ==
    IF morphology.extend_before_branch THEN parent_node.num_children ELSE 0

\* WorkingData::consider_all_potential_segments: the heap after the call.
consider_all_potential_segments(morphology, carrier_points, occ, heap, inclusive, parent_index, parent_node) ==
    IF is_segment(parent_node) /\ parent_node.num_children > morphology.maximum_branches
    THEN heap
    ELSE LET branch_num == consider_branch_num(morphology, parent_node)
             maximum_distance == consider_maximum_distance(morphology, parent_node)
             found == IF is_finite(maximum_distance)
                      THEN {c \in within_unsorted(carrier_points, parent_node.coordinates,
                                                  maximum_distance * maximum_distance,
                                                  inclusive) : ~occ[c + 1]}
                      ELSE iter_zeros(occ)
             pushed == {PotentialSegment(
                            branch_num,
                            priority(morphology, parent_node,
                                     distance(parent_node.coordinates, carrier_points[c + 1])),
                            c,
                            parent_index) : c \in found}
         IN  heap (+) SetToBag(pushed)

----------------------------------------------------------------------------
(* f64 values that are not lengths: a diameter is the rational <<n, d>>,   *)
(* d > 0; <<1, 0>> and <<-1, 0>> are the infinities and <<0, 0>> is NaN.   *)

RECURSIVE gcd(_, _)
gcd(a, b) == IF b = 0 THEN a ELSE gcd(b, a % b)

abs(n) == IF n < 0 THEN -n ELSE n

sign(n) == IF n < 0 THEN -1 ELSE IF n = 0 THEN 0 ELSE 1

norm(x) ==
    IF x[2] = 0 THEN <<sign(x[1]), 0>>
    ELSE LET g == gcd(abs(x[1]), abs(x[2])) IN
         <<sign(x[2]) * (x[1] \div g), abs(x[2]) \div g>>

rat(n) == <<n, 1>>

NAN == <<0, 0>>

is_nan(x) == x = NAN

f64_add(a, b) ==
    IF a[2] = 0 /\ b[2] = 0
    THEN (IF a = b THEN a ELSE NAN)
    ELSE norm(<<a[1] * b[2] + b[1] * a[2], a[2] * b[2]>>)

f64_mul(a, b) == norm(<<a[1] * b[1], a[2] * b[2]>>)

f64_div(a, b) ==
    IF b[2] = 0 THEN (IF a[2] = 0 \/ is_nan(b) THEN NAN ELSE rat(0))
    ELSE IF b[1] = 0 THEN <<sign(a[1]), 0>>
    ELSE norm(<<a[1] * b[2] * sign(b[1]), a[2] * abs(b[1])>>)

\* a < b; false when either is NaN.
f64_lt(a, b) ==
    /\ ~is_nan(a)
    /\ ~is_nan(b)
    /\ IF a[2] = 0 \/ b[2] = 0
       THEN (IF a[2] = 0 THEN a[1] < 0 /\ a # b ELSE b[1] > 0)
       ELSE a[1] * b[2] < b[1] * a[2]

\* a >= b; false when either is NaN.
f64_ge(a, b) == ~is_nan(a) /\ ~is_nan(b) /\ ~f64_lt(a, b)

\* f64::max, which returns the other argument when one is NaN.
rat_max(a, b) == IF is_nan(a) THEN b ELSE IF is_nan(b) THEN a ELSE IF f64_lt(a, b) THEN b ELSE a

----------------------------------------------------------------------------
(* lib.rs: DendriteDiameterQuadraticApprox *)

\* quaddiameter_ldend.txt
dendrite_lengths == <<4, 8>>

\* quaddiameter_P_normalized.txt
polynomials == <<<<1, -3, 2>>, <<2, -6, 4>>>>

\* interp_points: (index, None) or (index, Some((weight, index, weight))).
\* binary_search_by finds the query or the number of elements below it.
interp_points(data, query_value) ==
    LET hit == {i \in 1..Len(data) : data[i] = query_value}
        upper_index == Cardinality({i \in 1..Len(data) : data[i] < query_value})
    IN  IF hit # {}
        THEN <<(CHOOSE i \in hit : TRUE) - 1, None>>
        ELSE IF upper_index = 0
        THEN <<upper_index, None>>
        ELSE IF upper_index = Len(data)
        THEN <<upper_index - 1, None>>
        ELSE LET lower_index == upper_index - 1
                 upper_value == data[upper_index + 1]
                 lower_value == data[lower_index + 1]
                 total_dist == upper_value - lower_value
                 upper_dist == f64_div(rat(upper_value - query_value), rat(total_dist))
                 lower_dist == f64_div(rat(query_value - lower_value), rat(total_dist))
             IN  <<lower_index, Some(<<lower_dist, upper_index, upper_dist>>)>>

add_arrays(a, b) == [i \in 1..Len(a) |-> f64_add(a[i], b[i])]

\* self.polynomials[i]
polynomial_at(i) == [k \in 1..3 |-> rat(polynomials[i + 1][k])]

\* The polynomial the match on the result of interp_points makes for a terminal
\* with this path length.
interpolated(path_length) ==
    LET found == interp_points(dendrite_lengths, path_length)
        interp1_index == found[1]
        interp_data == found[2]
    IN  IF ~is_some(interp_data)
        THEN polynomial_at(interp1_index)
        ELSE LET interp1_weight == unwrap(interp_data)[1]
                 interp2_index == unwrap(interp_data)[2]
                 interp2_weight == unwrap(interp_data)[3]
             IN  add_arrays(
                     [k \in 1..3 |-> f64_mul(polynomial_at(interp1_index)[k], interp1_weight)],
                     [k \in 1..3 |-> f64_mul(polynomial_at(interp2_index)[k], interp2_weight)])

\* polynomial.map(|term| term * scale + offset)
scale_offset(morph, polynomial) ==
    LET scale == rat(morph.diameter_taper)
        offset == rat(morph.minimum_diameter)
    IN  [k \in 1..3 |-> f64_add(f64_mul(polynomial[k], scale), offset)]

\* The polynomial calculate_quadratic_diameters evaluates along the path of a
\* terminal with this path length.
terminal_polynomial(morph, path_length) == scale_offset(morph, interpolated(path_length))

\* The loop that walks from the cursor to the root, adding the terminal's
\* diameter estimate to every node on the way.
RECURSIVE walk_path(_, _, _, _, _)
walk_path(ns, accum, polynomial, normalization_factor, cursor_index) ==
    LET cursor_node == ns[cursor_index + 1]
        dist == f64_mul(rat(cursor_node.path_length), normalization_factor)
        diameter == f64_add(f64_add(f64_mul(polynomial[1], f64_mul(dist, dist)),
                                    f64_mul(polynomial[2], dist)),
                            polynomial[3])
        next == [accum EXCEPT ![cursor_index + 1] =
                    [num_paths |-> @.num_paths + 1,
                     sum_diams |-> f64_add(@.sum_diams, diameter)]]
    IN  IF is_segment(cursor_node)
        THEN walk_path(ns, next, polynomial, normalization_factor, cursor_node.parent_index)
        ELSE next

\* The loop over the terminals, from terminal_index on.
RECURSIVE accumulate_paths(_, _, _, _)
accumulate_paths(instrs, ns, accum, terminal_index) ==
    IF terminal_index >= Len(ns) THEN accum
    ELSE LET terminal_node == ns[terminal_index + 1]
             instr == instrs[terminal_node.instruction_index + 1]
         IN  IF ~is_terminal(terminal_node) \/ ~is_some(instr.morphology)
             THEN accumulate_paths(instrs, ns, accum, terminal_index + 1)
             ELSE accumulate_paths(
                      instrs, ns,
                      walk_path(ns, accum,
                                terminal_polynomial(unwrap(instr.morphology),
                                                    terminal_node.path_length),
                                f64_div(rat(1), rat(terminal_node.path_length)),
                                terminal_index),
                      terminal_index + 1)

\* averaged_diameter without the floor of minimum_diameter.
averaged_diameter_no_floor(instrs, node, paths) ==
    LET instr == instrs[node.instruction_index + 1] IN
    IF is_dendrite(instr)
    THEN f64_div(paths.sum_diams, rat(paths.num_paths))
    ELSE node.diameter

\* averaged_diameter applied to every instruction that has a morphology.
averaged_diameter_any_morphology(instrs, node, paths) ==
    LET instr == instrs[node.instruction_index + 1] IN
    IF is_some(instr.morphology)
    THEN LET mean_diameter == f64_div(paths.sum_diams, rat(paths.num_paths)) IN
         rat_max(rat(unwrap(instr.morphology).minimum_diameter), mean_diameter)
    ELSE node.diameter

\* The diameter the last loop of calculate_quadratic_diameters leaves in a node.
averaged_diameter(instrs, node, paths) ==
    LET instr == instrs[node.instruction_index + 1] IN
    IF is_dendrite(instr)
    THEN LET mean_diameter == f64_div(paths.sum_diams, rat(paths.num_paths)) IN
         rat_max(rat(unwrap(instr.morphology).minimum_diameter), mean_diameter)
    ELSE node.diameter

\* DendriteDiameterQuadraticApprox::calculate_quadratic_diameters
calculate_quadratic_diameters(instrs, ns) ==
    LET zero == [i \in 1..Len(ns) |-> [num_paths |-> 0, sum_diams |-> rat(0)]]
        accum == accumulate_paths(instrs, ns, zero, 0)
    IN  [i \in 1..Len(ns) |->
            [ns[i] EXCEPT !.diameter = averaged_diameter(instrs, ns[i], accum[i])]]

----------------------------------------------------------------------------
(* The programs create is run on. *)

\* Coordinates whose pairwise distances are 0, 3, 4, 5 and 6.
Points == {<<0, 0, 0>>, <<3, 0, 0>>, <<3, 4, 0>>, <<6, 0, 0>>}

\* The sequences over S of length at most n.
SeqUpTo(S, n) == UNION {[1..k -> S] : k \in 0..n}

\* Dendrites as GuiInstruction::morphology builds them.
Dendrites ==
    {Morphology(bf, INFINITY, PI, INFINITY, PI, FALSE, mb, 1, 1, INFINITY, TRUE) :
        bf \in {0, 1}, mb \in {0, 1}}

\* Axons as GuiInstruction::morphology builds them, and one with a diameter
\* taper, which Instruction::check accepts.
Axons ==
    {Morphology(0, dist[1], ea, dist[2], PI, TRUE, 1, 1, 0, INFINITY, TRUE) :
        dist \in {<<4, 5>>, <<3, 5>>}, ea \in {1, PI}}
    \cup {Morphology(0, 4, PI, 5, PI, TRUE, 1, 1, 1, INFINITY, FALSE)}

Morphologies == Dendrites \cup Axons

\* a is before b in the lexicographic order of coordinates.
point_lt(a, b) ==
    \/ a[1] < b[1]
    \/ a[1] = b[1] /\ a[2] < b[2]
    \/ a[1] = b[1] /\ a[2] = b[2] /\ a[3] < b[3]

\* The carrier point lists of a growth instruction, of min to max distinct
\* points.  The order of the list only names the points, so one order of each
\* is drawn.
CarrierLists(min, max) ==
    {cps \in SeqUpTo(Points, max) :
        /\ Len(cps) >= min
        /\ \A k \in 1..(Len(cps) - 1) : point_lt(cps[k], cps[k + 1])}

Soma(cps) == Instruction(None, Some(10), cps, <<>>)

\* A soma and one growth instruction of at most MaxPoints carrier points.
SimplePrograms ==
    {<<Soma(somas), Instruction(Some(m), None, cps, roots)>> :
        somas \in {<<<<0, 0, 0>>>>, <<<<0, 0, 0>>, <<3, 4, 0>>>>},
        m \in Morphologies,
        cps \in CarrierLists(0, MaxPoints),
        roots \in {<<>>, <<0>>}}

\* A soma, a dendrite grown from it and a growth instruction that may grow
\* from either, of at most MaxPoints carrier points together.
ChainPrograms ==
    UNION {
        {<<Soma(<<<<0, 0, 0>>>>),
           Instruction(Some(d), None, dcps, <<0>>),
           Instruction(Some(m), None, cps, roots)>> :
            d \in {x \in Dendrites : x.balancing_factor = 0},
            m \in Morphologies,
            cps \in CarrierLists(1, MaxPoints - Len(dcps)),
            roots \in {<<0>>, <<1>>, <<0, 1>>}} :
        dcps \in CarrierLists(1, MaxPoints - 1)}

\* Programs in which an instruction has no effect or instructions repeat.
EdgePrograms ==
    {<<>>,
     <<Soma(<<>>)>>,
     <<Soma(<<<<3, 4, 0>>, <<0, 0, 0>>, <<3, 4, 0>>>>)>>,
     <<Soma(<<<<0, 0, 0>>>>), Soma(<<<<3, 4, 0>>>>)>>}
    \cup
    {<<Instruction(Some(m), None, <<<<3, 0, 0>>>>, <<>>), Soma(<<<<0, 0, 0>>>>)>> :
        m \in Dendrites}
    \cup
    {<<Soma(<<>>), Instruction(Some(m), None, <<<<3, 0, 0>>>>, <<0>>)>> : m \in Dendrites}
    \cup
    {<<Soma(<<<<0, 0, 0>>>>), Instruction(Some(m), None, cps, roots)>> :
        m \in Morphologies,
        cps \in {<<<<3, 0, 0>>, <<3, 0, 0>>>>, <<<<3, 0, 0>>, <<6, 0, 0>>, <<3, 0, 0>>>>},
        roots \in {<<0>>, <<0, 0>>}}

\* One soma and one neurite whose morphology differs from a valid one in one
\* field, which is at or beyond the end of its domain.
CheckBase == Morphology(0, 4, PI, 5, PI, FALSE, 1, 1, 1, INFINITY, FALSE)

CheckMorphologies ==
    {[CheckBase EXCEPT !.balancing_factor = v] : v \in {-1, 0}}
    \cup {[CheckBase EXCEPT !.extension_distance = v] : v \in {-1, 0, INFINITY}}
    \cup {[CheckBase EXCEPT !.branch_distance = v] : v \in {-1, 0, INFINITY}}
    \cup {[CheckBase EXCEPT !.extension_angle = v] : v \in {-1, 0, 3}}
    \cup {[CheckBase EXCEPT !.branch_angle = v] : v \in {-1, 0, 3}}
    \cup {[CheckBase EXCEPT !.minimum_diameter = v] : v \in {-1, 0}}
    \cup {[CheckBase EXCEPT !.diameter_taper = v] : v \in {-1, 0}}
    \cup {[CheckBase EXCEPT !.maximum_segment_length = v] : v \in {-1, 0}}

CheckPrograms ==
    {<<Instruction(None, Some(10), <<<<0, 0, 0>>>>, <<>>),
       Instruction(Some(m), sd, <<<<3, 0, 0>>>>, roots)>> :
        m \in CheckMorphologies, sd \in {None}, roots \in {<<0>>}}
    \cup
    {<<Instruction(None, Some(10), <<<<0, 0, 0>>>>, <<>>),
       Instruction(Some(CheckBase), sd, <<<<3, 0, 0>>>>, roots)>> :
        sd \in {None, Some(10)}, roots \in {<<0>>, <<1>>, <<2>>, <<0, 1>>}}
    \cup
    {<<Instruction(Some(CheckBase), None, <<<<3, 0, 0>>>>, <<0>>),
       Instruction(None, Some(10), <<<<0, 0, 0>>>>, <<>>)>>}
    \cup
    {<<Instruction(None, sd, <<<<0, 0, 0>>>>, roots)>> :
        sd \in {None, Some(-1), Some(0), Some(10)}, roots \in {<<>>, <<0>>}}

Programs == CheckPrograms \cup EdgePrograms \cup SimplePrograms \cup ChainPrograms

\* Whether some radius query of the program has a finite radius.
uses_kd_tree(instrs) ==
    \E i \in 1..Len(instrs) :
        /\ is_some(instrs[i].morphology)
        /\ \/ is_finite(unwrap(instrs[i].morphology).extension_distance)
           \/ is_finite(unwrap(instrs[i].morphology).branch_distance)

----------------------------------------------------------------------------
(* lib.rs: create *)

\* No file has been exported.
NoFile == [custom_types |-> <<>>, lines |-> <<>>]

\* import_save has not been called.
ImportIdle ==
    /\ save_file = [parses |-> FALSE, instructions |-> <<>>, carrier_points |-> <<>>]
    /\ import_pc = "idle"
    /\ import_out = <<>>

\* generate_points has not been called.
PointsIdle ==
    /\ region = [kind |-> "None"]
    /\ gp_pc = "idle"
    /\ gp_carrier_points = <<>>
    /\ neighbors = {}
    /\ discard = {}
    /\ generated = <<>>

\* No terminal's polynomial is being interpolated.
InterpIdle ==
    /\ interp_pc = "idle"
    /\ interp_query = 0
    /\ interp_morph = Morphology(0, INFINITY, PI, INFINITY, PI, FALSE, 1, 0, 0, INFINITY, TRUE)
    /\ interp_out = <<>>

\* AppState::default(), and the viewer window closed by setup.
AppIdle ==
    /\ app_instructions = <<>>
    /\ app_carrier_points = <<>>
    /\ points_cache = <<>>
    /\ app_nodes = <<>>
    /\ viewer = FALSE

\* Nothing but create, import_save or generate_points runs.
AuxIdle == InterpIdle /\ AppIdle

Init ==
    /\ instructions \in Programs
    /\ kd_inclusive \in (IF uses_kd_tree(instructions) THEN BOOLEAN ELSE {FALSE})
    /\ pc = "check"
    /\ panic_message = ""
    /\ instr_index = 0
    /\ nodes = <<>>
    /\ sections = <<>>
    /\ section_start = 0
    /\ occupied = <<>>
    /\ potential = EmptyBag
    /\ swc_file = NoFile
    /\ ImportIdle
    /\ PointsIdle
    /\ AuxIdle

instr == instructions[instr_index + 1]

morph == unwrap(instr.morphology)

\* Instruction::check(instructions) returns.
CheckPass ==
    /\ pc = "check"
    /\ check(instructions) = ""
    /\ pc' = "for"
    /\ UNCHANGED <<other_vars, swc_file, instructions, kd_inclusive, panic_message, instr_index, nodes, sections,
                   section_start, occupied, potential>>

\* Instruction::check(instructions) panics, and create with it.
CheckPanic ==
    /\ pc = "check"
    /\ check(instructions) # ""
    /\ pc' = "panic"
    /\ panic_message' = check(instructions)
    /\ UNCHANGED <<other_vars, swc_file, instructions, kd_inclusive, instr_index, nodes, sections,
                   section_start, occupied, potential>>

\* soma_nodes with a loop that starts at the second carrier point.
soma_nodes_skip_first(soma_instr, index) ==
    [k \in 1..(Len(soma_instr.carrier_points) - 1) |->
        new_root(soma_instr.carrier_points[k + 1], rat(unwrap(soma_instr.soma_diameter)), index)]

\* new_section with the index of the last node as the end.
new_section_to_last(start, ns) == <<start, Len(ns) - 1>>

\* The pair an instruction pushes on sections when it ends.
new_section(start, ns) == <<start, Len(ns)>>

\* soma_nodes with a root at the origin when there is no carrier point.
soma_nodes_default_origin(soma_instr, index) ==
    IF soma_instr.carrier_points = <<>>
    THEN <<new_root(<<0, 0, 0>>, rat(unwrap(soma_instr.soma_diameter)), index)>>
    ELSE [k \in 1..Len(soma_instr.carrier_points) |->
             new_root(soma_instr.carrier_points[k], rat(unwrap(soma_instr.soma_diameter)), index)]

\* The nodes a soma instruction pushes.
soma_nodes(soma_instr, index) ==
    [k \in 1..Len(soma_instr.carrier_points) |->
        new_root(soma_instr.carrier_points[k], rat(unwrap(soma_instr.soma_diameter)), index)]

\* One turn of the for loop on an instruction without a morphology.
ExecSoma ==
    /\ pc = "for"
    /\ instr_index < Len(instructions)
    /\ is_soma(instr)
    /\ nodes' = nodes \o soma_nodes(instr, instr_index)
    /\ sections' = Append(sections, new_section(Len(nodes), nodes'))
    /\ section_start' = Len(nodes)
    /\ instr_index' = instr_index + 1
    /\ UNCHANGED <<other_vars, swc_file, instructions, kd_inclusive, pc, panic_message, occupied, potential>>

\* The inner loop of the seeding: every node of one root section is considered.
RECURSIVE seed_section(_, _, _, _)
seed_section(occ, heap, root_index, section_end) ==
    IF root_index >= section_end THEN heap
    ELSE seed_section(
             occ,
             consider_all_potential_segments(morph, instr.carrier_points, occ, heap,
                                             kd_inclusive, root_index, nodes[root_index + 1]),
             root_index + 1, section_end)

\* seed_roots over every node there is, whatever the roots.
seed_roots_every_node(occ, heap, roots) == seed_section(occ, heap, 0, Len(nodes))

\* The outer loop of the seeding, over the roots still to visit.
RECURSIVE seed_roots(_, _, _)
seed_roots(occ, heap, roots) ==
    IF roots = <<>> THEN heap
    ELSE seed_roots(occ,
                    seed_section(occ, heap, sections[roots[1] + 1][1], sections[roots[1] + 1][2]),
                    Tail(roots))

\* The start of a growth instruction: WorkingData::new and the seeding.  A root
\* that names no executed instruction makes sections[..] panic.
BeginNeurite ==
    /\ pc = "for"
    /\ instr_index < Len(instructions)
    /\ ~is_soma(instr)
    /\ section_start' = Len(nodes)
    /\ IF \E k \in 1..Len(instr.roots) : instr.roots[k] >= Len(sections)
       THEN /\ pc' = "panic"
            /\ panic_message' = "index out of bounds"
            /\ UNCHANGED <<occupied, potential>>
       ELSE /\ pc' = "grow"
            /\ occupied' = [c \in 1..Len(instr.carrier_points) |-> FALSE]
            /\ potential' = seed_roots(occupied', EmptyBag, instr.roots)
            /\ UNCHANGED panic_message
    /\ UNCHANGED <<other_vars, swc_file, instructions, kd_inclusive, instr_index, nodes, sections>>

\* pop_maximum_distance with the radius consider_all_potential_segments
\* searches.
pop_maximum_distance_permissive(parent_node) ==
    IF is_root(parent_node)
    THEN morph.extension_distance
    ELSE IF parent_node.num_children = 0
    THEN f64_max(morph.extension_distance, morph.branch_distance)
    ELSE morph.branch_distance

\* The distance limit the main loop checks a popped segment against.
pop_maximum_distance(parent_node) ==
    IF is_root(parent_node) \/ parent_node.num_children = 0
    THEN morph.extension_distance
    ELSE morph.branch_distance

\* The angle limit the main loop checks a popped segment against.
pop_maximum_angle(parent_node) ==
    IF parent_node.num_children = 0 THEN morph.extension_angle ELSE morph.branch_angle

\* The angle check of the main loop rejects the segment.
angle_rejects(parent_node, coordinates) ==
    LET maximum_angle == pop_maximum_angle(parent_node) IN
    /\ maximum_angle < PI
    /\ is_segment(parent_node)
    /\ LET grandparent_coords == nodes[parent_node.parent_index + 1].coordinates
           parent_vector == sub(grandparent_coords, parent_node.coordinates)
           segment_vector == sub(parent_node.coordinates, coordinates)
       IN  angle_gt(parent_vector, segment_vector, maximum_angle)

\* pop_verdict without the test of the occupied bit.
pop_verdict_ignore_occupied(seg) ==
    LET parent_node == nodes[seg.parent_index + 1]
        num_siblings == parent_node.num_children
        coordinates == instr.carrier_points[seg.carrier_index + 1]
        segment_length == distance(parent_node.coordinates, coordinates)
    IN  IF is_segment(parent_node) /\ num_siblings > morph.maximum_branches
        THEN "branches"
        ELSE IF segment_length > pop_maximum_distance(parent_node)
        THEN "distance"
        ELSE IF angle_rejects(parent_node, coordinates)
        THEN "angle"
        ELSE IF morph.extend_before_branch /\ seg.branch_num < num_siblings
        THEN "requeue"
        ELSE "commit"

\* pop_verdict without the test of the parent's number of children.
pop_verdict_ignore_branches(seg) ==
    LET parent_node == nodes[seg.parent_index + 1]
        num_siblings == parent_node.num_children
        coordinates == instr.carrier_points[seg.carrier_index + 1]
        segment_length == distance(parent_node.coordinates, coordinates)
    IN  IF occupied[seg.carrier_index + 1]
        THEN "occupied"
        ELSE IF segment_length > pop_maximum_distance(parent_node)
        THEN "distance"
        ELSE IF angle_rejects(parent_node, coordinates)
        THEN "angle"
        ELSE IF morph.extend_before_branch /\ seg.branch_num < num_siblings
        THEN "requeue"
        ELSE "commit"

\* pop_verdict without the check of the distance.
pop_verdict_ignore_distance(seg) ==
    LET parent_node == nodes[seg.parent_index + 1]
        num_siblings == parent_node.num_children
        coordinates == instr.carrier_points[seg.carrier_index + 1]
    IN  IF occupied[seg.carrier_index + 1]
        THEN "occupied"
        ELSE IF is_segment(parent_node) /\ num_siblings > morph.maximum_branches
        THEN "branches"
        ELSE IF angle_rejects(parent_node, coordinates)
        THEN "angle"
        ELSE IF morph.extend_before_branch /\ seg.branch_num < num_siblings
        THEN "requeue"
        ELSE "commit"

\* pop_verdict with the branch limit tested one child late.
pop_verdict_one_more_branch(seg) ==
    LET parent_node == nodes[seg.parent_index + 1]
        num_siblings == parent_node.num_children
        coordinates == instr.carrier_points[seg.carrier_index + 1]
        segment_length == distance(parent_node.coordinates, coordinates)
    IN  IF occupied[seg.carrier_index + 1]
        THEN "occupied"
        ELSE IF is_segment(parent_node) /\ num_siblings > morph.maximum_branches + 1
        THEN "branches"
        ELSE IF segment_length > pop_maximum_distance(parent_node)
        THEN "distance"
        ELSE IF angle_rejects(parent_node, coordinates)
        THEN "angle"
        ELSE IF morph.extend_before_branch /\ seg.branch_num < num_siblings
        THEN "requeue"
        ELSE "commit"

\* What the body of the main loop does with a popped segment.
pop_verdict(seg) ==
    LET parent_node == nodes[seg.parent_index + 1]
        num_siblings == parent_node.num_children
        coordinates == instr.carrier_points[seg.carrier_index + 1]
        segment_length == distance(parent_node.coordinates, coordinates)
    IN  IF occupied[seg.carrier_index + 1]
        THEN "occupied"
        ELSE IF is_segment(parent_node) /\ num_siblings > morph.maximum_branches
        THEN "branches"
        ELSE IF segment_length > pop_maximum_distance(parent_node)
        THEN "distance"
        ELSE IF angle_rejects(parent_node, coordinates)
        THEN "angle"
        ELSE IF morph.extend_before_branch /\ seg.branch_num < num_siblings
        THEN "requeue"
        ELSE "commit"

\* segment_node with node_index passed where parent_index belongs.
segment_node_own_index(seg) ==
    LET parent_node == nodes[seg.parent_index + 1]
        coordinates == instr.carrier_points[seg.carrier_index + 1]
        segment_length == distance(parent_node.coordinates, coordinates)
    IN  new_segment(coordinates, rat(morph.minimum_diameter), Len(nodes), instr_index,
                    parent_node.path_length + segment_length)

\* segment_node with the segment's length as the path length.
segment_node_length_only(seg) ==
    LET parent_node == nodes[seg.parent_index + 1]
        coordinates == instr.carrier_points[seg.carrier_index + 1]
        segment_length == distance(parent_node.coordinates, coordinates)
    IN  new_segment(coordinates, rat(morph.minimum_diameter), seg.parent_index, instr_index,
                    segment_length)

\* The node the main loop pushes for a popped segment.
segment_node(seg) ==
    LET parent_node == nodes[seg.parent_index + 1]
        coordinates == instr.carrier_points[seg.carrier_index + 1]
        segment_length == distance(parent_node.coordinates, coordinates)
    IN  new_segment(coordinates, rat(morph.minimum_diameter), seg.parent_index, instr_index,
                    parent_node.path_length + segment_length)

\* commit_nodes without the increment of the parent's num_children.
commit_nodes_no_increment(seg) == Append(nodes, segment_node(seg))

\* commit_nodes that also stamps the parent with the current instruction.
commit_nodes_retag_parent(seg) ==
    [Append(nodes, segment_node(seg)) EXCEPT
        ![seg.parent_index + 1].num_children = @ + 1,
        ![seg.parent_index + 1].instruction_index = instr_index]

\* The node array after the main loop grew a popped segment: the node is
\* pushed and the parent counts one more child.
commit_nodes(seg) ==
    [Append(nodes, segment_node(seg)) EXCEPT ![seg.parent_index + 1].num_children = @ + 1]

\* A popped segment whose carrier point is already used is skipped.
PopOccupied ==
    /\ pc = "grow"
    /\ \E seg \in pop_candidates(potential) :
        /\ pop_verdict(seg) = "occupied"
        /\ potential' = remove(potential, seg)
    /\ UNCHANGED <<other_vars, swc_file, instructions, kd_inclusive, pc, panic_message, instr_index, nodes, sections,
                   section_start, occupied>>

\* A popped segment that fails a morphological constraint is skipped.
PopInfeasible ==
    /\ pc = "grow"
    /\ \E seg \in pop_candidates(potential) :
        /\ pop_verdict(seg) \in {"branches", "distance", "angle"}
        /\ potential' = remove(potential, seg)
    /\ UNCHANGED <<other_vars, swc_file, instructions, kd_inclusive, pc, panic_message, instr_index, nodes, sections,
                   section_start, occupied>>

\* requeued with the branch number the segment was popped with.
requeued_same_branch(seg) == seg

\* requeued with one more than the parent's number of children.
requeued_one_more(seg) ==
    PotentialSegment(nodes[seg.parent_index + 1].num_children + 1,
                     seg.priority, seg.carrier_index, seg.parent_index)

\* The segment the main loop pushes back for a popped segment whose parent
\* grew since it was considered.
requeued(seg) ==
    PotentialSegment(nodes[seg.parent_index + 1].num_children,
                     seg.priority, seg.carrier_index, seg.parent_index)

\* A popped segment whose parent grew since it was considered is pushed back
\* with the parent's number of children as its branch number.
PopRequeue ==
    /\ pc = "grow"
    /\ \E seg \in pop_candidates(potential) :
        /\ pop_verdict(seg) = "requeue"
        /\ potential' = push(remove(potential, seg), requeued(seg))
    /\ UNCHANGED <<other_vars, swc_file, instructions, kd_inclusive, pc, panic_message, instr_index, nodes, sections,
                   section_start, occupied>>

\* A popped segment is grown: the node is pushed, the carrier point is used,
\* the parent counts one more child and the new node is considered as a parent.
PopCommit ==
    /\ pc = "grow"
    /\ \E seg \in pop_candidates(potential) :
        /\ pop_verdict(seg) = "commit"
        /\ LET node_index == Len(nodes) IN
               /\ nodes' = commit_nodes(seg)
               /\ occupied' = [occupied EXCEPT ![seg.carrier_index + 1] = TRUE]
               /\ potential' = consider_all_potential_segments(
                                   morph, instr.carrier_points, occupied',
                                   remove(potential, seg), kd_inclusive,
                                   node_index, nodes'[node_index + 1])
    /\ UNCHANGED <<other_vars, swc_file, instructions, kd_inclusive, pc, panic_message, instr_index, sections,
                   section_start>>

\* The queue is empty: the growth instruction ends.
EndNeurite ==
    /\ pc = "grow"
    /\ potential = EmptyBag
    /\ sections' = Append(sections, new_section(section_start, nodes))
    /\ instr_index' = instr_index + 1
    /\ pc' = "for"
    /\ UNCHANGED <<other_vars, swc_file, instructions, kd_inclusive, panic_message, nodes, section_start, occupied,
                   potential>>

\* After the last instruction the diameters are calculated and create returns.
Finish ==
    /\ pc = "for"
    /\ instr_index = Len(instructions)
    /\ nodes' = calculate_quadratic_diameters(instructions, nodes)
    /\ pc' = "done"
    /\ UNCHANGED <<other_vars, swc_file, instructions, kd_inclusive, panic_message, instr_index, sections,
                   section_start, occupied, potential>>

\* Node::parent_index() of lib.rs.
parent_index(node) == IF is_root(node) THEN None ELSE Some(node.parent_index)

INSTR_TYPE_OFFSET == 256

\* The customTypes header of export_swc: one element per instruction.  The
\* Instruction of lib.rs carries no name, so the element is its tag and id.
custom_types(instrs) ==
    [k \in 1..Len(instrs) |->
        [tag |-> IF is_soma(instrs[k]) THEN "soma"
                 ELSE IF is_axon(instrs[k]) THEN "axon" ELSE "dendrite",
         id  |-> (k - 1) + INSTR_TYPE_OFFSET]]

\* export_swc skips a node whose parent is a root.
swc_skipped(ns, index) ==
    /\ is_some(parent_index(ns[index + 1]))
    /\ is_root(ns[unwrap(parent_index(ns[index + 1])) + 1])

\* The parent field export_swc writes without looking at the grandparent.
swc_parent_direct(ns, node) ==
    IF is_some(parent_index(node)) THEN unwrap(parent_index(node)) + 1 ELSE 0

\* The parent field export_swc writes for a node that is not skipped.
swc_parent(ns, node) ==
    IF is_some(parent_index(node))
    THEN LET parent_node == ns[unwrap(parent_index(node)) + 1]
             grandparent == ns[parent_node.parent_index + 1]
         IN  IF is_root(grandparent)
             THEN parent_node.parent_index + 1
             ELSE unwrap(parent_index(node)) + 1
    ELSE 0

\* The line export_swc writes for the node at index:
\* node_index node_type x y z radius parent.
swc_line(ns, index) ==
    LET node == ns[index + 1]
    IN  <<index + 1,
          node.instruction_index + INSTR_TYPE_OFFSET,
          node.coordinates[1], node.coordinates[2], node.coordinates[3],
          f64_mul(<<1, 2>>, node.diameter),
          swc_parent(ns, node)>>

\* The body of the file export_swc returns.
export_swc(instrs, ns) ==
    LET kept == SelectSeq([k \in 1..Len(ns) |-> k - 1],
                          LAMBDA index : ~swc_skipped(ns, index))
    IN  [k \in 1..Len(kept) |-> swc_line(ns, kept[k])]

\* The caller exports the nodes create returned.
ExportSwc ==
    /\ pc = "done"
    /\ swc_file' = [custom_types |-> custom_types(instructions),
                    lines |-> export_swc(instructions, nodes)]
    /\ pc' = "exported"
    /\ UNCHANGED <<other_vars, instructions, kd_inclusive, panic_message, instr_index, nodes,
                   sections, section_start, occupied, potential>>

Next ==
    \/ CheckPass
    \/ CheckPanic
    \/ ExecSoma
    \/ BeginNeurite
    \/ PopOccupied
    \/ PopInfeasible
    \/ PopRequeue
    \/ PopCommit
    \/ EndNeurite
    \/ Finish
    \/ ExportSwc

Spec == Init /\ [][Next]_vars

\* The programs whose growth loop is followed to its end: those that fail the
\* checks or have no effect, and a soma with one axon, whose candidates can be
\* requeued.
LivePrograms ==
    CheckPrograms \cup EdgePrograms
    \cup {p \in SimplePrograms : unwrap(p[2].morphology).extend_before_branch}

InitLive == Init /\ instructions \in LivePrograms

\* A turn of the while loop of a growth instruction, or its end.
GrowStep == PopOccupied \/ PopInfeasible \/ PopRequeue \/ PopCommit \/ EndNeurite

\* create runs on one thread and nothing in the loop waits: while a turn of the
\* loop is possible, create takes one.
SpecLive == InitLive /\ [][Next]_vars /\ WF_vars(GrowStep)

----------------------------------------------------------------------------
(* formats.rs: import_save *)

\* The most instructions of a save file.
MaxInstructions == 2

\* create has not been called.
CreateIdle ==
    /\ instructions = <<>>
    /\ pc = "idle"
    /\ panic_message = ""
    /\ instr_index = 0
    /\ nodes = <<>>
    /\ sections = <<>>
    /\ section_start = 0
    /\ occupied = <<>>
    /\ potential = EmptyBag
    /\ swc_file = NoFile

create_vars == <<instructions, kd_inclusive, pc, panic_message, instr_index, nodes, sections,
                 section_start, occupied, potential, swc_file>>

\* GuiInstruction::Soma and GuiInstruction::Dendrite; the fields that make the
\* morphology are the same in every dendrite.
GuiSoma(name, carrier_points) ==
    [type |-> "soma", name |-> name, carrier_points |-> carrier_points, roots |-> <<>>]

GuiDendrite(name, carrier_points, roots) ==
    [type |-> "dendrite", name |-> name, carrier_points |-> carrier_points, roots |-> roots]

\* CarrierPoints::Point
Point(name, coordinates) == [kind |-> "Point", name |-> name, coordinates |-> coordinates]

\* GuiInstruction::roots
GuiInstruction_roots(gui) == IF gui.type = "soma" THEN <<>> ELSE gui.roots

\* GuiInstruction::morphology
GuiInstruction_morphology(gui) ==
    IF gui.type = "soma" THEN None
    ELSE Some(Morphology(0, INFINITY, PI, INFINITY, PI, FALSE, 1, 1, 1, INFINITY, TRUE))

\* GuiInstruction::instruction
GuiInstruction_instruction(gui, points, roots) ==
    Instruction(GuiInstruction_morphology(gui),
                IF gui.type = "soma" THEN Some(10) ELSE None,
                points, roots)

\* HashMap::insert: a later value replaces an earlier one under the same key.
insert(map, key, value) ==
    [k \in (DOMAIN map) \cup {key} |-> IF k = key THEN value ELSE map[k]]

\* Iterator::collect into a HashMap: the entries are inserted in order.
RECURSIVE collect(_, _)
collect(map, entries) ==
    IF entries = <<>> THEN map
    ELSE collect(insert(map, entries[1][1], entries[1][2]), Tail(entries))

\* The map from the name of an instruction to its index.
instruction_names(file) ==
    collect(<<>>, [k \in 1..Len(file.instructions) |-> <<file.instructions[k].name, k - 1>>])

\* The map from the name of a region to the region.
carrier_points_names(file) ==
    collect(<<>>, [k \in 1..Len(file.carrier_points) |->
                      <<file.carrier_points[k].name, file.carrier_points[k]>>])

\* Indexing a HashMap with a key it does not hold panics.
index_panics(map, names) == \E k \in 1..Len(names) : names[k] \notin DOMAIN map

\* The fold over the names of an instruction's regions: the points of each
\* region, in order.  A Point region generates its coordinates.
RECURSIVE fold_points(_, _)
fold_points(map, names) ==
    IF names = <<>> THEN <<>>
    ELSE <<map[names[1]].coordinates>> \o fold_points(map, Tail(names))

\* Whether the closure that transforms the instructions panics.
import_panics(file) ==
    \E k \in 1..Len(file.instructions) :
        \/ index_panics(instruction_names(file), GuiInstruction_roots(file.instructions[k]))
        \/ index_panics(carrier_points_names(file), file.instructions[k].carrier_points)

\* The instructions import_save returns.
imported(file) ==
    [k \in 1..Len(file.instructions) |->
        LET gui == file.instructions[k]
            names == GuiInstruction_roots(gui)
            roots == [j \in 1..Len(names) |-> instruction_names(file)[names[j]]]
        IN  GuiInstruction_instruction(
                gui, fold_points(carrier_points_names(file), gui.carrier_points), roots)]

\* The names of instructions and of regions in the save files.
InstructionNames == {"a", "b"}

RegionNames == {"p", "q"}

GuiInstructions ==
    {GuiSoma(name, cps) : name \in InstructionNames, cps \in {<<>>, <<"p">>}}
    \cup
    {GuiDendrite(name, cps, roots) :
        name \in InstructionNames,
        cps \in {<<>>, <<"q">>},
        roots \in {<<>>, <<"a">>, <<"b">>}}

RegionLists ==
    {<<Point("p", <<0, 0, 0>>)>>,
     <<Point("p", <<0, 0, 0>>), Point("q", <<3, 0, 0>>)>>,
     <<Point("p", <<0, 0, 0>>), Point("q", <<3, 0, 0>>), Point("q", <<6, 0, 0>>)>>}

\* The save files: the one text that is not a SaveFile, and the SaveFiles.
SaveFiles ==
    {[parses |-> FALSE, instructions |-> <<>>, carrier_points |-> <<>>]}
    \cup
    {[parses |-> TRUE, instructions |-> instrs, carrier_points |-> regions] :
        instrs \in SeqUpTo(GuiInstructions, MaxInstructions),
        regions \in RegionLists}

InitImport ==
    /\ CreateIdle
    /\ kd_inclusive = FALSE
    /\ PointsIdle
    /\ AuxIdle
    /\ save_file \in SaveFiles
    /\ import_pc = "call"
    /\ import_out = <<>>

\* serde_json::from_str fails and import_save returns its error.
ImportError ==
    /\ import_pc = "call"
    /\ ~save_file.parses
    /\ import_pc' = "error"
    /\ UNCHANGED <<create_vars, points_vars, aux_vars, save_file, import_out>>

\* A name that a map does not hold is looked up and import_save panics.
ImportPanic ==
    /\ import_pc = "call"
    /\ save_file.parses
    /\ import_panics(save_file)
    /\ import_pc' = "panic"
    /\ UNCHANGED <<create_vars, points_vars, aux_vars, save_file, import_out>>

\* import_save returns the instructions.
ImportOk ==
    /\ import_pc = "call"
    /\ save_file.parses
    /\ ~import_panics(save_file)
    /\ import_out' = imported(save_file)
    /\ import_pc' = "ok"
    /\ UNCHANGED <<create_vars, points_vars, aux_vars, save_file>>

NextImport ==
    \/ ImportError
    \/ ImportPanic
    \/ ImportOk

SpecImport == InitImport /\ [][NextImport]_vars

----------------------------------------------------------------------------
(* carrier_points.rs: CarrierPoints::generate_points *)

\* The most points a region is asked for, overflowing requests apart.
MaxNumPoints == 2

\* A u32 is the pair <<high, low>> of its 16-bit halves.
U16 == 65536

u32(n) == <<n \div U16, n % U16>>

\* 2 * x in u32: the wrapped product and whether it overflowed.
overflowing_double(x) ==
    LET low == 2 * x[2]
        high == 2 * x[1] + (low \div U16)
    IN  <<(<<high % U16, low % U16>>), high >= U16>>

\* a - b in u32: the wrapped difference and whether it overflowed.
overflowing_sub(a, b) ==
    LET low == a[2] - b[2]
        high == a[1] - b[1] - (IF low < 0 THEN 1 ELSE 0)
    IN  <<(<<high % U16, low % U16>>), high < 0>>

\* len < x as usize, and len as u32 >= x, for a length below 2^16.
usize_lt(len, x) == x[1] > 0 \/ len < x[2]

u32_ge(len, x) == ~usize_lt(len, x)

\* CarrierPoints::Sphere and CarrierPoints::Box
Sphere(name, n, center, radius) ==
    [kind |-> "Sphere", name |-> name, num_points |-> n, center |-> center, radius |-> radius]

Box(name, n, upper, lower) ==
    [kind |-> "Box", name |-> name, num_points |-> n, upper |-> upper, lower |-> lower]

\* CarrierPoints::num_points
num_points(self) == IF self.kind = "Point" THEN u32(1) ELSE self.num_points

\* CarrierPoints::volume, as <<n, d, k>> for n / d * PI^k cubic units.
volume(self) ==
    IF self.kind = "Sphere"
    THEN <<4 * self.radius * self.radius * self.radius, 3, 1>>
    ELSE IF self.kind = "Box"
    THEN <<(self.upper[1] - self.lower[1]) * (self.upper[2] - self.lower[2])
               * (self.upper[3] - self.lower[3]), 1, 0>>
    ELSE <<0, 1, 0>>

\* CarrierPoints::contains
contains(self, coordinates) ==
    IF self.kind = "Sphere"
    THEN LET d == sub(coordinates, self.center) IN dot(d, d) <= self.radius * self.radius
    ELSE IF self.kind = "Box"
    THEN \A k \in 1..3 : coordinates[k] >= self.lower[k] /\ coordinates[k] <= self.upper[k]
    ELSE coordinates = self.coordinates

\* CarrierPoints::aabb
aabb(self) ==
    IF self.kind = "Sphere"
    THEN <<[k \in 1..3 |-> self.center[k] - self.radius],
           [k \in 1..3 |-> self.center[k] + self.radius]>>
    ELSE IF self.kind = "Box"
    THEN <<self.lower, self.upper>>
    ELSE <<self.coordinates, self.coordinates>>

\* The coordinates the generator is let draw: some of those inside the aabb.
Samples == {<<0, 0, 0>>, <<1, 0, 0>>, <<1, 1, 0>>, <<2, 0, 0>>, <<2, 2, 0>>}

coordinate_generator(self) ==
    {c \in Samples : \A k \in 1..3 : aabb(self)[1][k] <= c[k] /\ c[k] <= aabb(self)[2][k]}

\* 355 / 113 is above PI and no fraction of the sizes compared here lies
\* between the two.
PI_NUM == 355

PI_DEN == 113

\* Whether the kd-tree returns a neighbor at the squared distance dist for
\* the radius minimum_distance = 0.5 * (volume / num_points)^(1/3):
\* dist <= minimum_distance is 8 * dist^3 * num_points <= volume.
within_minimum_distance(self, dist, inclusive) ==
    LET n == num_points(self)[1] * U16 + num_points(self)[2]
        v == volume(self)
        left == 8 * dist * dist * dist * n * v[2]
    IN  IF v[3] = 1
        THEN left * PI_DEN < PI_NUM * v[1]
        ELSE left < v[1] \/ (inclusive /\ left = v[1])

\* The neighbors vector: (squared distance, index, item) for every item of a
\* lower index the kd-tree returns around a point.
find_neighbors(self, points, inclusive) ==
    LET indices == 0..(Len(points) - 1)
        distance_squared(pair) ==
            dot(sub(points[pair[1] + 1], points[pair[2] + 1]),
                sub(points[pair[1] + 1], points[pair[2] + 1]))
    IN  {<<distance_squared(pair), pair[1], pair[2]>> :
            pair \in {pr \in indices \X indices :
                         /\ pr[2] < pr[1]
                         /\ within_minimum_distance(self, distance_squared(pr), inclusive)}}

\* The neighbors sort_unstable_by may have put first: any of least distance.
first_neighbors(remaining) ==
    {nn \in remaining : \A other \in remaining : nn[1] <= other[1]}

\* The filter_map and take at the end of generate_points.
filter_take(self, points, discarded) ==
    LET kept == SelectSeq([k \in 1..Len(points) |-> k - 1],
                          LAMBDA index : index \notin discarded)
        n == num_points(self)
        taken == IF usize_lt(Len(kept), n) THEN Len(kept) ELSE n[2]
    IN  [k \in 1..taken |-> points[kept[k] + 1]]

\* The regions generate_points is called on.  The last asks for 2^31 points.
Regions ==
    {Sphere("s", u32(n), <<0, 0, 0>>, 2) : n \in 0..MaxNumPoints}
    \cup {Box("b", u32(n), <<2, 2, 2>>, <<0, 0, 0>>) : n \in 0..MaxNumPoints}
    \cup {Point("p", <<1, 0, 0>>)}
    \cup {Sphere("s", <<32768, 0>>, <<0, 0, 0>>, 2)}

volumetric(self) == self.kind \in {"Sphere", "Box"}

\* let oversample = 2 * num_points
oversample(self) == overflowing_double(num_points(self))[1]

\* let num_discard = oversample - num_points
num_discard(self) == overflowing_sub(oversample(self), num_points(self))[1]

InitPoints ==
    /\ CreateIdle
    /\ ImportIdle
    /\ AuxIdle
    /\ region \in Regions
    /\ kd_inclusive \in BOOLEAN
    /\ gp_pc = "call"
    /\ gp_carrier_points = <<>>
    /\ neighbors = {}
    /\ discard = {}
    /\ generated = <<>>

\* A Point region returns its coordinates.
GeneratePoint ==
    /\ gp_pc = "call"
    /\ region.kind = "Point"
    /\ generated' = <<region.coordinates>>
    /\ gp_pc' = "done"
    /\ UNCHANGED <<create_vars, import_vars, aux_vars, region, gp_carrier_points, neighbors, discard>>

\* The oversample is computed.  A product that overflows panics in a build
\* with overflow checks and wraps in one without.
BeginSampling ==
    /\ gp_pc = "call"
    /\ volumetric(region)
    /\ \/ gp_pc' = "sample"
       \/ /\ overflowing_double(num_points(region))[2]
          /\ gp_pc' = "panic"
    /\ UNCHANGED <<create_vars, import_vars, aux_vars, region, gp_carrier_points, neighbors, discard,
                   generated>>

\* One turn of the while loop: coordinates are drawn inside the aabb and kept
\* if the shape contains them.
Sample ==
    /\ gp_pc = "sample"
    /\ usize_lt(Len(gp_carrier_points), oversample(region))
    /\ \E coordinates \in coordinate_generator(region) :
          gp_carrier_points' = IF contains(region, coordinates)
                               THEN Append(gp_carrier_points, coordinates)
                               ELSE gp_carrier_points
    /\ UNCHANGED <<create_vars, import_vars, aux_vars, region, gp_pc, neighbors, discard, generated>>

\* The while loop ends; the neighbors are searched and sorted.
SearchNeighbors ==
    /\ gp_pc = "sample"
    /\ ~usize_lt(Len(gp_carrier_points), oversample(region))
    /\ neighbors' = find_neighbors(region, gp_carrier_points, kd_inclusive)
    /\ gp_pc' = "thin"
    /\ UNCHANGED <<create_vars, import_vars, aux_vars, region, gp_carrier_points, discard, generated>>

\* The loop over the neighbors breaks: enough points are discarded.
ThinBreak ==
    /\ gp_pc = "thin"
    /\ neighbors # {}
    /\ u32_ge(Cardinality(discard), num_discard(region))
    /\ neighbors' = {}
    /\ gp_pc' = "filter"
    /\ UNCHANGED <<create_vars, import_vars, aux_vars, region, gp_carrier_points, discard, generated>>

\* The loop over the neighbors continues past a pair one point of which is
\* discarded already.
ThinContinue ==
    /\ gp_pc = "thin"
    /\ ~u32_ge(Cardinality(discard), num_discard(region))
    /\ \E nn \in first_neighbors(neighbors) :
          /\ nn[2] \in discard \/ nn[3] \in discard
          /\ neighbors' = neighbors \ {nn}
    /\ UNCHANGED <<create_vars, import_vars, aux_vars, region, gp_pc, gp_carrier_points, discard,
                   generated>>

\* The loop over the neighbors discards the point of the higher index.
ThinDiscard ==
    /\ gp_pc = "thin"
    /\ ~u32_ge(Cardinality(discard), num_discard(region))
    /\ \E nn \in first_neighbors(neighbors) :
          /\ nn[2] \notin discard /\ nn[3] \notin discard
          /\ discard' = discard \cup {nn[2]}
          /\ neighbors' = neighbors \ {nn}
    /\ UNCHANGED <<create_vars, import_vars, aux_vars, region, gp_pc, gp_carrier_points, generated>>

\* The loop over the neighbors reaches the end of the vector.
ThinEnd ==
    /\ gp_pc = "thin"
    /\ neighbors = {}
    /\ gp_pc' = "filter"
    /\ UNCHANGED <<create_vars, import_vars, aux_vars, region, gp_carrier_points, neighbors, discard,
                   generated>>

\* The points not discarded are returned, num_points of them at most.
FilterTake ==
    /\ gp_pc = "filter"
    /\ generated' = filter_take(region, gp_carrier_points, discard)
    /\ gp_pc' = "done"
    /\ UNCHANGED <<create_vars, import_vars, aux_vars, region, gp_carrier_points, neighbors, discard>>

NextPoints ==
    \/ GeneratePoint
    \/ BeginSampling
    \/ Sample
    \/ SearchNeighbors
    \/ ThinBreak
    \/ ThinContinue
    \/ ThinDiscard
    \/ ThinEnd
    \/ FilterTake

SpecPoints == InitPoints /\ [][NextPoints]_vars

----------------------------------------------------------------------------
(* lib.rs: the polynomial of one terminal in calculate_quadratic_diameters *)

\* The longest path length of a terminal.
MaxLength == 12

\* The morphologies of the dendrite instructions of the terminals.
InterpMorphologies ==
    {Morphology(0, INFINITY, PI, INFINITY, PI, FALSE, 1, md, dt, INFINITY, TRUE) :
        md \in 0..2, dt \in 0..2}

InitInterp ==
    /\ CreateIdle
    /\ kd_inclusive = FALSE
    /\ ImportIdle
    /\ PointsIdle
    /\ interp_pc = "call"
    /\ interp_query \in 1..MaxLength
    /\ interp_morph \in InterpMorphologies
    /\ interp_out = <<>>
    /\ AppIdle

\* let polynomial = match interp_data { .. }
Interpolate ==
    /\ interp_pc = "call"
    /\ interp_pc' = "scale"
    /\ interp_out' = <<interpolated(interp_query)>>
    /\ UNCHANGED <<create_vars, import_vars, points_vars, interp_query, interp_morph>>
    /\ UNCHANGED <<app_instructions, app_carrier_points, points_cache, app_nodes, viewer>>

\* let polynomial = polynomial.map(|term| term * scale + offset)
ScaleOffset ==
    /\ interp_pc = "scale"
    /\ interp_pc' = "done"
    /\ interp_out' = Append(interp_out, scale_offset(interp_morph, interp_out[1]))
    /\ UNCHANGED <<create_vars, import_vars, points_vars, interp_query, interp_morph>>
    /\ UNCHANGED <<app_instructions, app_carrier_points, points_cache, app_nodes, viewer>>

NextInterp ==
    \/ Interpolate
    \/ ScaleOffset

SpecInterp == InitInterp /\ [][NextInterp]_vars

----------------------------------------------------------------------------
(* main.rs: AppState and the commands that keep it in sync with the front end *)

\* The instructions and regions the front end sends.  The regions are Point
\* regions, whose points are their coordinates.
AppInstructions ==
    {GuiSoma(name, <<"p">>) : name \in InstructionNames}
    \cup {GuiDendrite(name, <<"q">>, <<"a">>) : name \in InstructionNames}

AppRegions == {Point("p", <<0, 0, 0>>), Point("p", <<3, 0, 0>>), Point("q", <<0, 0, 0>>)}

\* The names of the instructions of a list.
names_of(instrs) == {instrs[k].name : k \in 1..Len(instrs)}

\* The save files open_file reads.
AppSaveFiles ==
    {[instructions |-> instrs, carrier_points |-> regions] :
        instrs \in {<<>>,
                    <<GuiSoma("a", <<"p">>)>>,
                    <<GuiSoma("a", <<"p">>), GuiDendrite("b", <<"q">>, <<"a">>)>>},
        regions \in {<<Point("p", <<0, 0, 0>>)>>,
                     <<Point("p", <<3, 0, 0>>), Point("q", <<0, 0, 0>>)>>}}

\* CarrierPoints::generate_points of a Point region.
generate_point(self) == <<self.coordinates>>

\* HashMap::retain
retain(map, keep(_)) == [key \in {k \in DOMAIN map : keep(k)} |-> map[key]]

\* drain().map(..).collect(): the cache under renamed keys.  Of two entries
\* that come under one key, the one collect inserts last stays.
renamed_caches(cache, rename(_)) ==
    LET keys == {rename(k) : k \in DOMAIN cache} IN
    {f \in [keys -> {cache[k] : k \in DOMAIN cache}] :
        \A key \in keys : \E k \in DOMAIN cache : rename(k) = key /\ f[key] = cache[k]}

\* The points of the regions of an instruction, read from the cache.
RECURSIVE cached_points(_, _, _)
cached_points(cache, instr_name, names) ==
    IF names = <<>> THEN <<>>
    ELSE cache[<<instr_name, names[1]>>] \o cached_points(cache, instr_name, Tail(names))

\* AppState::update_nodes: the cache after it, and the instructions it gives to
\* create.
update_nodes(instrs, regions, cache) ==
    LET names == instruction_names([instructions |-> instrs])
        present(gui) == SelectSeq(gui.carrier_points, LAMBDA name : name \in DOMAIN regions)
        wanted == UNION {{<<instrs[k].name, present(instrs[k])[j]>> :
                             j \in 1..Len(present(instrs[k]))} : k \in 1..Len(instrs)}
        new_cache == [key \in (DOMAIN cache) \cup wanted |->
                         IF key \in DOMAIN cache THEN cache[key]
                         ELSE generate_point(regions[key[2]])]
        found(gui) == SelectSeq(GuiInstruction_roots(gui),
                                LAMBDA name : name \in DOMAIN names)
        roots(k) == SelectSeq([j \in 1..Len(found(instrs[k])) |->
                                  names[found(instrs[k])[j]]],
                              LAMBDA r : r < k - 1)
    IN  [cache |-> new_cache,
         nodes |-> [k \in 1..Len(instrs) |->
                       [carrier_points |->
                            cached_points(new_cache, instrs[k].name, present(instrs[k])),
                        roots |-> roots(k)]]]

\* update_viewer: update_nodes if the viewer window exists.
update_viewer(instrs, regions, cache) ==
    IF viewer THEN update_nodes(instrs, regions, cache)
    ELSE [cache |-> cache, nodes |-> app_nodes]

\* The end of a command: the data it leaves and update_viewer on them.
command(instrs, regions, cache) ==
    /\ app_instructions' = instrs
    /\ app_carrier_points' = regions
    /\ points_cache' = update_viewer(instrs, regions, cache).cache
    /\ app_nodes' = update_viewer(instrs, regions, cache).nodes
    /\ UNCHANGED <<create_vars, import_vars, points_vars, interp_vars, viewer>>

\* AppState::default(); setup closes the viewer window.
InitApp ==
    /\ CreateIdle
    /\ kd_inclusive = FALSE
    /\ ImportIdle
    /\ PointsIdle
    /\ InterpIdle
    /\ app_instructions = <<>>
    /\ app_carrier_points = <<>>
    /\ points_cache = <<>>
    /\ app_nodes = <<>>
    /\ viewer = FALSE

\* The front end sends the changes of the data it shows: it creates and renames
\* under names not in use and changes, moves and deletes what exists.
InstrCreate ==
    \E gui \in AppInstructions :
        /\ Len(app_instructions) < MaxInstructions
        /\ gui.name \notin names_of(app_instructions)
        /\ command(Append(app_instructions, gui), app_carrier_points, points_cache)

InstrChange ==
    \E index \in 1..Len(app_instructions), gui \in AppInstructions :
        /\ gui.name = app_instructions[index].name
        /\ command([app_instructions EXCEPT ![index] = gui], app_carrier_points, points_cache)

InstrDelete ==
    \E index \in 1..Len(app_instructions) :
        command(SubSeq(app_instructions, 1, index - 1)
                    \o SubSeq(app_instructions, index + 1, Len(app_instructions)),
                app_carrier_points, points_cache)

InstrMove ==
    \E index_1 \in 1..Len(app_instructions), index_2 \in 1..Len(app_instructions) :
        command([app_instructions EXCEPT ![index_1] = app_instructions[index_2],
                                         ![index_2] = app_instructions[index_1]],
                app_carrier_points, points_cache)

InstrRename ==
    \E old_name \in names_of(app_instructions) :
    \E new_name \in InstructionNames \ names_of(app_instructions) :
        LET renamed(name) == IF name = old_name THEN new_name ELSE name
            rename(key) == <<renamed(key[1]), key[2]>>
        IN  \E cache \in renamed_caches(points_cache, rename) :
                command([k \in 1..Len(app_instructions) |->
                            [app_instructions[k] EXCEPT
                                !.name = renamed(@),
                                !.roots = [j \in 1..Len(@) |-> renamed(@[j])]]],
                        app_carrier_points, cache)

PointsCreate ==
    \E points \in AppRegions :
        /\ points.name \notin DOMAIN app_carrier_points
        /\ command(app_instructions, insert(app_carrier_points, points.name, points),
                   points_cache)

PointsChange ==
    \E points \in AppRegions :
        /\ points.name \in DOMAIN app_carrier_points
        /\ command(app_instructions, insert(app_carrier_points, points.name, points),
                   retain(points_cache, LAMBDA key : key[2] # points.name))

PointsDelete ==
    \E name \in DOMAIN app_carrier_points :
        command(app_instructions, retain(app_carrier_points, LAMBDA n : n # name),
                retain(points_cache, LAMBDA key : key[2] # name))

PointsRename ==
    \E old_name \in DOMAIN app_carrier_points :
    \E new_name \in RegionNames \ DOMAIN app_carrier_points :
        LET renamed(name) == IF name = old_name THEN new_name ELSE name
            rename(key) == <<key[1], renamed(key[2])>>
            points == [app_carrier_points[old_name] EXCEPT !.name = new_name]
        IN  \E cache \in renamed_caches(points_cache, rename) :
                command([k \in 1..Len(app_instructions) |->
                            [app_instructions[k] EXCEPT
                                !.carrier_points = [j \in 1..Len(@) |-> renamed(@[j])]]],
                        insert(retain(app_carrier_points, LAMBDA n : n # old_name),
                               new_name, points),
                        cache)

\* new_file, confirmed: the model is discarded.
NewFile ==
    /\ app_instructions' = <<>>
    /\ app_carrier_points' = <<>>
    /\ UNCHANGED <<create_vars, import_vars, points_vars, interp_vars, points_cache,
                   app_nodes, viewer>>

\* open_file with a file that parses: set_data, then update_viewer.
OpenFile ==
    \E file \in AppSaveFiles :
        command(file.instructions,
                collect(<<>>, [k \in 1..Len(file.carrier_points) |->
                                  <<file.carrier_points[k].name, file.carrier_points[k]>>]),
                <<>>)

\* regen_points: clear_cache, then update_viewer.
RegenPoints == command(app_instructions, app_carrier_points, <<>>)

\* open_viewer builds the window, which sends request_update_viewer.
OpenViewer ==
    /\ ~viewer
    /\ viewer' = TRUE
    /\ points_cache' = update_nodes(app_instructions, app_carrier_points, points_cache).cache
    /\ app_nodes' = update_nodes(app_instructions, app_carrier_points, points_cache).nodes
    /\ UNCHANGED <<create_vars, import_vars, points_vars, interp_vars, app_instructions,
                   app_carrier_points>>

NextApp ==
    \/ InstrCreate
    \/ InstrChange
    \/ InstrDelete
    \/ InstrMove
    \/ InstrRename
    \/ PointsCreate
    \/ PointsChange
    \/ PointsDelete
    \/ PointsRename
    \/ NewFile
    \/ OpenFile
    \/ RegenPoints
    \/ OpenViewer

SpecApp == InitApp /\ [][NextApp]_vars

----------------------------------------------------------------------------
(* Properties of create. *)

\* The indices of the node array.
node_indices == 0..(Len(nodes) - 1)

\* The indices of the instructions that have a morphology.
neurite_indices == {k \in 0..(Len(instructions) - 1) : is_some(instructions[k + 1].morphology)}

\* The nodes at later indices whose parent is node n.
children_of(n) == {i \in node_indices : i > n /\ nodes[i + 1].parent_index = n}

\* The indices of the nodes of the section of instruction k.
section_nodes(k) == {i \in node_indices : sections[k + 1][1] <= i /\ i < sections[k + 1][2]}

\* Some root section of instruction k holds a node.
has_seed(k) ==
    \E r \in 1..Len(instructions[k + 1].roots) :
        LET root_instr == instructions[k + 1].roots[r] IN
        sections[root_instr + 1][1] < sections[root_instr + 1][2]

\* C1: in every state of the node array, while instructions are executed and
\* when create returns, every node is a root (its parent_index is u32::MAX) or
\* has a parent_index less than its own index.
C1_TopologicalOrder ==
    \A i \in node_indices :
        is_root(nodes[i + 1]) \/ nodes[i + 1].parent_index < i

\* create returned a tree in which a segment grew from a segment.
C1_Witness ==
    /\ pc = "done"
    /\ \E i \in node_indices :
        /\ is_segment(nodes[i + 1])
        /\ is_segment(nodes[nodes[i + 1].parent_index + 1])

\* C2: after each instruction, and after each segment the main loop grows,
\* num_children of every node n is the number of nodes at later indices whose
\* parent_index is n.
C2_ChildCount ==
    \A n \in node_indices :
        nodes[n + 1].num_children = Cardinality(children_of(n))

\* Every instruction has been executed and some node has two children.
C2_Witness ==
    /\ pc = "for"
    /\ instr_index = Len(instructions)
    /\ \E n \in node_indices : nodes[n + 1].num_children >= 2

\* C3: the path_length of a root is 0, and the path_length of every other node
\* is its parent's path_length plus the distance from the parent's coordinates
\* to its own.
C3_PathLength ==
    \A i \in node_indices :
        LET node == nodes[i + 1] IN
        IF is_root(node)
        THEN node.path_length = 0
        ELSE LET parent_node == nodes[node.parent_index + 1] IN
             node.path_length =
                 parent_node.path_length + distance(parent_node.coordinates, node.coordinates)

\* create returned a node whose parent is away from its root.
C3_Witness ==
    /\ pc = "done"
    /\ \E i \in node_indices :
        /\ is_segment(nodes[i + 1])
        /\ nodes[nodes[i + 1].parent_index + 1].path_length > 0
        /\ nodes[i + 1].path_length > nodes[nodes[i + 1].parent_index + 1].path_length

\* C4: when create returns, a growth instruction has no more nodes in its
\* section than it has carrier points, and if its morphology has
\* reach_all_carrier_points (and it had a node to grow from) every one of its
\* carrier points is the coordinates of a node of its section.  The radius
\* query is taken to return the points at exactly the radius, the reading that
\* reaches the most carrier points.
C4_CarrierCoverage ==
    (pc = "done" /\ (uses_kd_tree(instructions) => kd_inclusive)) =>
        \A k \in neurite_indices :
            LET morphology == unwrap(instructions[k + 1].morphology)
                carrier_points == instructions[k + 1].carrier_points
            IN  /\ Cardinality(section_nodes(k)) <= Len(carrier_points)
                /\ (morphology.reach_all_carrier_points /\ has_seed(k)) =>
                       \A c \in 1..Len(carrier_points) :
                           \E i \in section_nodes(k) :
                               nodes[i + 1].coordinates = carrier_points[c]

\* C5: within one growth instruction the occupied bits start at zero, a bit
\* that is set stays set, and every segment the main loop grows sets exactly
\* one bit that was zero, the bit of the carrier point the new node is on.
C5_OccupiedOnce ==
    [][/\ (pc # "grow" /\ pc' = "grow") =>
              /\ Len(occupied') = Len(instr.carrier_points)
              /\ \A c \in 1..Len(occupied') : ~occupied'[c]
       /\ (pc = "grow" /\ pc' = "grow") =>
              /\ Len(occupied') = Len(occupied)
              /\ \A c \in 1..Len(occupied) : occupied[c] => occupied'[c]
       /\ (pc = "grow" /\ nodes' # nodes) =>
              /\ Len(nodes') = Len(nodes) + 1
              /\ \E c \in 1..Len(occupied) :
                  /\ ~occupied[c]
                  /\ occupied' = [occupied EXCEPT ![c] = TRUE]
                  /\ nodes'[Len(nodes')].coordinates = instr.carrier_points[c]
      ]_vars

\* The main loop is about to pop a segment to a carrier point that is in use.
C5_Witness ==
    /\ pc = "grow"
    /\ \E seg \in pop_candidates(potential) : occupied[seg.carrier_index + 1]
    /\ \E c \in 1..Len(occupied) : ~occupied[c]

\* C6 as claimed: while the main loop of a dendrite instruction runs, no
\* non-root node of the instruction has more than maximum_branches children.
C6_BranchLimit ==
    (pc = "grow" /\ is_dendrite(instr)) =>
        \A i \in node_indices :
            (i >= section_start /\ is_segment(nodes[i + 1])) =>
                nodes[i + 1].num_children <= morph.maximum_branches

\* C6 as amended: while the main loop of a dendrite instruction runs, no
\* non-root node of the instruction has more than maximum_branches + 1
\* children: one extension and maximum_branches branches.
C6_BranchLimitPlusOne ==
    (pc = "grow" /\ is_dendrite(instr)) =>
        \A i \in node_indices :
            (i >= section_start /\ is_segment(nodes[i + 1])) =>
                nodes[i + 1].num_children <= morph.maximum_branches + 1

\* A node of the dendrite has maximum_branches + 1 children and the queue still
\* holds a segment from it to a free carrier point.
C6_Witness ==
    /\ pc = "grow"
    /\ is_dendrite(instr)
    /\ \E seg \in BagToSet(potential) :
        /\ seg.parent_index >= section_start
        /\ nodes[seg.parent_index + 1].num_children = morph.maximum_branches + 1
        /\ ~occupied[seg.carrier_index + 1]

\* Some growth instruction of the list names itself or a later instruction as
\* a root.
forward_root(instrs) ==
    \E i \in 1..Len(instrs) :
        /\ is_some(instrs[i].morphology)
        /\ \E k \in 1..Len(instrs[i].roots) : instrs[i].roots[k] >= i - 1

\* C7: a list in which a growth instruction names itself or a later instruction
\* as a root is rejected by the validation, before any instruction is executed
\* or any node pushed; so when an instruction is grown, sections has an entry
\* for each of its roots and the lookup never fails.
C7_ForwardRootsRejected ==
    /\ (pc # "check" /\ forward_root(instructions)) =>
           /\ pc = "panic"
           /\ instr_index = 0
           /\ nodes = <<>>
           /\ sections = <<>>
    /\ pc = "grow" =>
           \A k \in 1..Len(instr.roots) :
               instr.roots[k] < instr_index /\ instr.roots[k] < Len(sections)
    /\ panic_message # "index out of bounds"

\* The validation stopped create on the assertion about the roots.
C7_Witness ==
    /\ pc = "panic"
    /\ forward_root(instructions)
    /\ panic_message = "instr.roots.iter().all(|&root_instr| root_instr < instr_index as u32)"

\* C8: a list that fails the validation does not abort create: the failure is
\* handed to the caller as a value.
C8_ValidationReturnsError ==
    check(instructions) # "" => pc # "panic"

\* Everything the validation examines besides the fields of the morphologies is
\* valid: a soma has no roots and a positive diameter, a growth instruction has
\* earlier roots and no soma diameter.
valid_but_morphology(instrs) ==
    \A i \in 1..Len(instrs) :
        IF is_some(instrs[i].morphology)
        THEN /\ \A k \in 1..Len(instrs[i].roots) : instrs[i].roots[k] < i - 1
             /\ ~is_some(instrs[i].soma_diameter)
        ELSE /\ instrs[i].roots = <<>>
             /\ is_some(instrs[i].soma_diameter)
             /\ unwrap(instrs[i].soma_diameter) > 0

\* The domains of the data-model table.
table_domain(morphology) ==
    /\ morphology.balancing_factor >= 0
    /\ morphology.extension_distance > 0
    /\ morphology.branch_distance > 0
    /\ morphology.extension_angle \in 0..PI
    /\ morphology.branch_angle \in 0..PI
    /\ morphology.minimum_diameter > 0
    /\ morphology.diameter_taper >= 0
    /\ morphology.maximum_segment_length > 0

\* The domains of the table with the distances allowed to be 0 and without a
\* domain for maximum_segment_length.
accepted_domain(morphology) ==
    /\ morphology.balancing_factor >= 0
    /\ morphology.extension_distance >= 0
    /\ morphology.branch_distance >= 0
    /\ morphology.extension_angle \in 0..PI
    /\ morphology.branch_angle \in 0..PI
    /\ morphology.minimum_diameter > 0
    /\ morphology.diameter_taper >= 0

\* C9 as claimed: the validation accepts the growth instructions of a list
\* exactly when every parameter of their morphologies is in its domain of the
\* data-model table, in which the distances and maximum_segment_length are
\* greater than 0.
C9_TableDomain ==
    (pc # "check" /\ valid_but_morphology(instructions)) =>
        (pc # "panic" <=>
            \A k \in neurite_indices : table_domain(unwrap(instructions[k + 1].morphology)))

\* C9 as amended: the validation accepts the growth instructions of a list
\* exactly when balancing_factor >= 0, extension_distance >= 0,
\* branch_distance >= 0, both angles are in [0, pi], minimum_diameter > 0 and
\* diameter_taper >= 0; maximum_segment_length is not examined.
C9_AcceptedDomain ==
    (pc # "check" /\ valid_but_morphology(instructions)) =>
        (pc # "panic" <=>
            \A k \in neurite_indices : accepted_domain(unwrap(instructions[k + 1].morphology)))

\* A list with an extension_distance of 0 passed the validation.
C9_Witness ==
    /\ pc = "for"
    /\ valid_but_morphology(instructions)
    /\ \E k \in neurite_indices : unwrap(instructions[k + 1].morphology).extension_distance = 0

\* C10: the turn of the for loop on a soma instruction appends one root per
\* carrier point, in order: the point's coordinates, the soma diameter, no
\* children, path length 0 and the parent u32::MAX, and changes no other node;
\* a growth instruction appends only nodes that are not roots.
C10_SomaRoots ==
    [][/\ (pc = "for" /\ instr_index < Len(instructions) /\ is_soma(instr)) =>
              /\ Len(nodes') = Len(nodes) + Len(instr.carrier_points)
              /\ \A i \in 1..Len(nodes) : nodes'[i] = nodes[i]
              /\ \A k \in 1..Len(instr.carrier_points) :
                  nodes'[Len(nodes) + k] =
                      [coordinates |-> instr.carrier_points[k],
                       diameter |-> <<unwrap(instr.soma_diameter), 1>>,
                       parent_index |-> U32_MAX,
                       instruction_index |-> instr_index,
                       num_children |-> 0,
                       path_length |-> 0]
       /\ (pc = "for" /\ instr_index < Len(instructions) /\ ~is_soma(instr)) =>
              nodes' = nodes
       /\ pc = "grow" =>
              \A i \in (Len(nodes) + 1)..Len(nodes') : is_segment(nodes'[i])
      ]_vars

\* A soma instruction of two carrier points was executed.
C10_Witness ==
    /\ pc = "for"
    /\ instr_index = 1
    /\ is_soma(instructions[1])
    /\ Len(nodes) = 2
    /\ nodes[1].coordinates # nodes[2].coordinates

\* C11: executing an instruction, soma or neurite, whose carrier_points list
\* is empty leaves the node array as it was: no node is appended and no field
\* of a node, num_children included, is changed.
C11_EmptyCarrierPoints ==
    [][(/\ pc \in {"for", "grow"}
        /\ instr_index < Len(instructions)
        /\ instr.carrier_points = <<>>) => nodes' = nodes]_vars

\* A neurite without carrier points was executed on roots that have nodes.
C11_Witness ==
    /\ pc = "for"
    /\ instr_index >= 1
    /\ ~is_soma(instructions[instr_index])
    /\ instructions[instr_index].carrier_points = <<>>
    /\ instructions[instr_index].roots # <<>>
    /\ nodes # <<>>

\* C12: while instructions are executed the node array only grows by
\* appending, and of the fields of a node already emitted only num_children
\* changes, and only when the instruction being executed emits a child of it.
C12_AppendOnly ==
    [][(pc \in {"for", "grow"} /\ instr_index < Len(instructions)) =>
          /\ Len(nodes') >= Len(nodes)
          /\ \A i \in 1..Len(nodes) :
                /\ [nodes'[i] EXCEPT !.num_children = nodes[i].num_children] = nodes[i]
                /\ nodes'[i].num_children # nodes[i].num_children =>
                       /\ pc = "grow"
                       /\ Len(nodes') = Len(nodes) + 1
                       /\ nodes'[Len(nodes')].instruction_index = instr_index
                       /\ nodes'[Len(nodes')].parent_index = i - 1]_vars

\* The instruction being executed gave a child to a node of an earlier one.
C12_Witness ==
    /\ pc = "grow"
    /\ Len(nodes) > section_start
    /\ \E i \in 0..(section_start - 1) :
          /\ nodes[i + 1].num_children > 0
          /\ nodes[Len(nodes)].parent_index = i

\* The node at index i was created by a dendrite instruction.
dendrite_node(i) == is_dendrite(instructions[nodes[i + 1].instruction_index + 1])

\* The node at index i was created by an axon instruction.
axon_node(i) == is_axon(instructions[nodes[i + 1].instruction_index + 1])

minimum_diameter_of(i) ==
    unwrap(instructions[nodes[i + 1].instruction_index + 1].morphology).minimum_diameter

\* C13: after the diameter solver ran, every node a dendrite instruction
\* created has a diameter of at least that instruction's minimum_diameter.
C13_DiameterFloor ==
    pc \in {"done", "exported"} =>
        \A i \in node_indices :
            dendrite_node(i) => f64_ge(nodes[i + 1].diameter, rat(minimum_diameter_of(i)))

\* The solver ran on a dendrite node whose path has length zero, where the
\* mean of the estimates is not a number, and on one whose mean is above the
\* minimum.
C13_Witness ==
    /\ pc = "done"
    /\ \E i \in node_indices :
          /\ dendrite_node(i)
          /\ is_segment(nodes[i + 1])
          /\ nodes[i + 1].path_length = 0
    /\ \E i \in node_indices :
          /\ dendrite_node(i)
          /\ f64_lt(rat(minimum_diameter_of(i)), nodes[i + 1].diameter)

\* C14: the diameter solver changes only the diameter, and only of nodes that
\* dendrite instructions created: a root keeps soma_diameter, an axon's node
\* keeps the diameter it was emitted with, and no other field changes.
C14_SolverFrame ==
    [][(pc = "for" /\ instr_index = Len(instructions)) =>
          /\ Len(nodes') = Len(nodes)
          /\ \A i \in node_indices :
                /\ [nodes'[i + 1] EXCEPT !.diameter = nodes[i + 1].diameter] = nodes[i + 1]
                /\ ~dendrite_node(i) => nodes'[i + 1].diameter = nodes[i + 1].diameter
                /\ is_root(nodes[i + 1]) =>
                       nodes'[i + 1].diameter =
                           rat(unwrap(instructions[nodes[i + 1].instruction_index + 1].soma_diameter))
                /\ axon_node(i) => nodes'[i + 1].diameter = rat(minimum_diameter_of(i))]_vars

\* The solver ran on a root, on an axon's node that is not a terminal and on a
\* dendrite's node, whose diameter it changed.
C14_Witness ==
    /\ pc = "done"
    /\ \E i \in node_indices : is_root(nodes[i + 1])
    /\ \E i \in node_indices : axon_node(i) /\ nodes[i + 1].num_children > 0
    /\ \E i \in node_indices :
          dendrite_node(i) /\ nodes[i + 1].diameter # rat(minimum_diameter_of(i))

\* The node at index i is the first node of a path out of a root.
soma_anchor(i) == is_segment(nodes[i + 1]) /\ is_root(nodes[nodes[i + 1].parent_index + 1])

\* C17: export_swc writes one line per node, in the order of the nodes, but
\* none for a soma anchor; the line of the node at position i has index i + 1,
\* and its parent is 0 for a root, the root's position + 1 for a node whose
\* parent is a soma anchor, and the parent's position + 1 otherwise.
C17_SwcRecords ==
    pc = "exported" =>
        LET lines == swc_file.lines IN
        /\ Len(lines) = Cardinality({i \in node_indices : ~soma_anchor(i)})
        /\ \A k \in 1..(Len(lines) - 1) : lines[k][1] < lines[k + 1][1]
        /\ \A k \in 1..Len(lines) :
              LET i == lines[k][1] - 1 IN
              /\ i \in node_indices
              /\ ~soma_anchor(i)
              /\ lines[k][7] =
                     IF is_root(nodes[i + 1]) THEN 0
                     ELSE IF soma_anchor(nodes[i + 1].parent_index)
                     THEN nodes[nodes[i + 1].parent_index + 1].parent_index + 1
                     ELSE nodes[i + 1].parent_index + 1

\* A file was exported from nodes with a soma anchor and a child of it.
C17_Witness ==
    /\ pc = "exported"
    /\ \E i \in node_indices :
          /\ is_segment(nodes[i + 1])
          /\ soma_anchor(nodes[i + 1].parent_index)
          /\ \E k \in 1..Len(swc_file.lines) : swc_file.lines[k][1] = i + 1

\* The segment a step of the main loop popped: the one the queue holds fewer
\* copies of after the step.
popped(seg) == CopiesIn(seg, potential') < CopiesIn(seg, potential)

\* a is before b, or equal to it, in the order of (branch_num, priority).
lex_le(a, b) ==
    \/ a.branch_num < b.branch_num
    \/ a.branch_num = b.branch_num /\ a.priority <= b.priority

\* C19: every pop of the queue returns a candidate whose (branch_num,
\* priority) is lexicographically least among the candidates in the queue, and
\* without extend_before_branch every candidate in the queue has branch_num 0,
\* so the pop returns one of least priority.
C19_PopOrder ==
    [][pc = "grow" =>
          /\ \A seg \in BagToSet(potential) :
                popped(seg) =>
                    /\ \A other \in BagToSet(potential) : lex_le(seg, other)
                    /\ ~morph.extend_before_branch =>
                           \A other \in BagToSet(potential) : seg.priority <= other.priority
          /\ ~morph.extend_before_branch =>
                \A seg \in BagToSet(potential) : seg.branch_num = 0]_vars

\* A dendrite has grown a node and its queue holds candidates of different
\* priorities; an axon's queue holds candidates of different branch numbers.
C19_Witness ==
    /\ pc = "grow"
    /\ Len(nodes) > section_start
    /\ \E a, b \in BagToSet(potential) :
          \/ ~morph.extend_before_branch /\ a.priority < b.priority
          \/ morph.extend_before_branch /\ a.branch_num < b.branch_num

\* C20: in an axon instruction a popped candidate that passes the constraint
\* checks while its branch_num is below its parent's num_children is not
\* committed: it is pushed back with the parent's num_children as branch_num
\* and nothing else changed; so a committed segment's branch_num is its
\* parent's num_children at the commit.
C20_AxonRequeue ==
    [][(pc = "grow" /\ morph.extend_before_branch) =>
          \A seg \in BagToSet(potential) :
              popped(seg) =>
                  LET num_children == nodes[seg.parent_index + 1].num_children IN
                  /\ (pop_verdict(seg) \in {"requeue", "commit"}
                      /\ seg.branch_num < num_children) =>
                         /\ nodes' = nodes
                         /\ occupied' = occupied
                         /\ potential' = push(remove(potential, seg),
                                              [seg EXCEPT !.branch_num = num_children])
                  /\ Len(nodes') > Len(nodes) => seg.branch_num = num_children]_vars

\* An axon that grows from a soma alone holds a candidate from a root with a
\* branch_num above the zero it was seeded with, and has committed a segment.
C20_Witness ==
    /\ pc = "grow"
    /\ morph.extend_before_branch
    /\ instr_index = 1
    /\ is_soma(instructions[1])
    /\ Len(nodes) > section_start
    /\ \E seg \in BagToSet(potential) :
          /\ seg.branch_num >= 1
          /\ is_root(nodes[seg.parent_index + 1])

\* The length of the segment a candidate stands for.
segment_length_of(seg) ==
    distance(nodes[seg.parent_index + 1].coordinates,
             instr.carrier_points[seg.carrier_index + 1])

\* The candidate reaches the distance check: its carrier point is free and its
\* parent is below the limit of branches.
reaches_distance_check(seg) ==
    /\ ~occupied[seg.carrier_index + 1]
    /\ ~(/\ is_segment(nodes[seg.parent_index + 1])
         /\ nodes[seg.parent_index + 1].num_children > morph.maximum_branches)

\* The step dropped the popped candidate: nothing but the queue changed, and
\* the queue lost the candidate.
dropped(seg) ==
    /\ nodes' = nodes
    /\ occupied' = occupied
    /\ potential' = remove(potential, seg)

\* The permissive radius on the parent's current state.
permissive_radius(parent_node) ==
    IF is_root(parent_node)
    THEN morph.extension_distance
    ELSE IF parent_node.num_children = 0
    THEN IF morph.extension_distance >= morph.branch_distance
         THEN morph.extension_distance ELSE morph.branch_distance
    ELSE morph.branch_distance

\* The limit of the re-check: extension_distance for a root and for a parent
\* without children, branch_distance otherwise.
strict_radius(parent_node) ==
    IF is_root(parent_node) \/ parent_node.num_children = 0
    THEN morph.extension_distance
    ELSE morph.branch_distance

\* C21 as claimed: a popped candidate that reaches the distance check passes
\* it, and so is not dropped unless the angle check rejects it, exactly when
\* its length is at most the permissive radius on the parent's current state,
\* max(extension_distance, branch_distance) for a non-root without children.
C21_PermissiveRecheck ==
    [][pc = "grow" =>
          \A seg \in BagToSet(potential) :
              (popped(seg) /\ reaches_distance_check(seg)) =>
                  LET parent_node == nodes[seg.parent_index + 1] IN
                  /\ segment_length_of(seg) > permissive_radius(parent_node) => dropped(seg)
                  /\ (/\ segment_length_of(seg) <= permissive_radius(parent_node)
                      /\ ~angle_rejects(parent_node,
                                        instr.carrier_points[seg.carrier_index + 1]))
                         => ~dropped(seg)]_vars

\* C21 as amended: the same with the limit of the re-check, which is
\* extension_distance for a non-root parent without children.
C21_StrictRecheck ==
    [][pc = "grow" =>
          \A seg \in BagToSet(potential) :
              (popped(seg) /\ reaches_distance_check(seg)) =>
                  LET parent_node == nodes[seg.parent_index + 1] IN
                  /\ segment_length_of(seg) > strict_radius(parent_node) => dropped(seg)
                  /\ (/\ segment_length_of(seg) <= strict_radius(parent_node)
                      /\ ~angle_rejects(parent_node,
                                        instr.carrier_points[seg.carrier_index + 1]))
                         => ~dropped(seg)]_vars

\* The queue is empty, and a carrier point is still free that lies further
\* than extension_distance and within branch_distance of a node of the
\* instruction that has no children: its candidate was popped and dropped.
C21_Witness ==
    /\ pc = "grow"
    /\ potential = EmptyBag
    /\ morph.extension_distance < morph.branch_distance
    /\ \E i \in node_indices, c \in 1..Len(instr.carrier_points) :
          /\ i >= section_start
          /\ nodes[i + 1].num_children = 0
          /\ ~occupied[c]
          /\ distance(nodes[i + 1].coordinates, instr.carrier_points[c])
                 > morph.extension_distance
          /\ distance(nodes[i + 1].coordinates, instr.carrier_points[c])
                 <= morph.branch_distance

\* The candidate is stale: its carrier point is occupied.
stale(seg) == occupied[seg.carrier_index + 1]

\* The candidate fails the check of maximum_branches, of the distance or of
\* the angle.
infeasible(seg) ==
    LET parent_node == nodes[seg.parent_index + 1] IN
    \/ is_segment(parent_node) /\ parent_node.num_children > morph.maximum_branches
    \/ segment_length_of(seg) > strict_radius(parent_node)
    \/ angle_rejects(parent_node, instr.carrier_points[seg.carrier_index + 1])

\* C22: a popped candidate that is stale or infeasible is dropped with no
\* effect: the nodes, their num_children and the occupied bits are unchanged,
\* nothing is enqueued and the queue loses just that candidate; only a
\* candidate that is neither appends a node, and the candidates enqueued with
\* it grow from the new node.
C22_DroppedNoEffect ==
    [][pc = "grow" =>
          \A seg \in BagToSet(potential) :
              popped(seg) =>
                  /\ (stale(seg) \/ infeasible(seg)) => dropped(seg)
                  /\ nodes' # nodes =>
                         /\ ~stale(seg) /\ ~infeasible(seg)
                         /\ Len(nodes') = Len(nodes) + 1
                         /\ \A new \in BagToSet(potential') :
                                CopiesIn(new, potential') > CopiesIn(new, potential) =>
                                    new.parent_index = Len(nodes)]_vars

\* A dendrite with at least two nodes has emptied its queue: each of its
\* carrier points was a candidate from every node before it, so candidates of
\* occupied carrier points were popped.
C22_Witness ==
    /\ pc = "grow"
    /\ ~morph.extend_before_branch
    /\ potential = EmptyBag
    /\ Len(nodes) >= section_start + 2
    /\ section_start > 0

\* C23: a segment committed onto a root, to a target outside the soma radius,
\* appends a soma anchor before the node of the target; so every node whose
\* parent is a root has a path length of at most 0.5 * soma_diameter, the
\* path length of an anchor, and a node further out has the anchor as parent.
C23_SomaAnchor ==
    \A i \in node_indices :
        (is_segment(nodes[i + 1]) /\ is_root(nodes[nodes[i + 1].parent_index + 1])) =>
            LET root == nodes[nodes[i + 1].parent_index + 1]
                soma_diameter == unwrap(instructions[root.instruction_index + 1].soma_diameter)
            IN  2 * nodes[i + 1].path_length <= soma_diameter

\* The node at index p is inside the section of a root of instruction k.
in_root_section(p, k) ==
    \E j \in 1..Len(instructions[k + 1].roots) :
        LET r == instructions[k + 1].roots[j] IN
        /\ r < Len(sections)
        /\ sections[r + 1][1] <= p
        /\ p < sections[r + 1][2]

\* The node at index p is a root or sits on a carrier point of its instruction.
grows_segments(p) ==
    \/ is_root(nodes[p + 1])
    \/ \E c \in 1..Len(instructions[nodes[p + 1].instruction_index + 1].carrier_points) :
          instructions[nodes[p + 1].instruction_index + 1].carrier_points[c]
              = nodes[p + 1].coordinates

\* C24: the parent of every node a neurite instruction appended is inside the
\* section of one of the instruction's roots or among the instruction's own
\* nodes, and is a root or a node on a carrier point; an instruction whose
\* roots' sections hold no node, or that has no roots, appended no node.
C24_GrowsFromRoots ==
    /\ \A i \in node_indices :
          is_segment(nodes[i + 1]) =>
              LET k == nodes[i + 1].instruction_index
                  p == nodes[i + 1].parent_index
              IN  /\ in_root_section(p, k) \/ nodes[p + 1].instruction_index = k
                  /\ grows_segments(p)
    /\ \A k \in neurite_indices :
          (\A p \in node_indices : ~in_root_section(p, k)) =>
              \A i \in node_indices : nodes[i + 1].instruction_index # k

\* A neurite whose only root is another neurite has grown a node, while the
\* soma's section holds nodes too.
C24_Witness ==
    /\ Len(instructions) = 3
    /\ pc = "done"
    /\ instructions[3].roots = <<1>>
    /\ \E i \in node_indices : nodes[i + 1].instruction_index = 2

\* C25: after k instructions the sections table has k entries, which cut the
\* node array into consecutive blocks in the order of the instructions: the
\* first starts at 0, each ends where the next starts, the last ends at the
\* number of nodes, and a node has instruction_index i exactly when it is
\* inside block i.
C25_SectionsPartition ==
    LET k == Len(sections) IN
    /\ pc \in {"for", "grow", "done", "exported"} => k = instr_index
    /\ k > 0 => sections[1][1] = 0
    /\ \A i \in 1..(k - 1) : sections[i][2] = sections[i + 1][1]
    /\ pc # "grow" => (IF k > 0 THEN sections[k][2] ELSE 0) = Len(nodes)
    /\ \A n \in node_indices :
          \A i \in 0..(k - 1) :
              nodes[n + 1].instruction_index = i
                  <=> (sections[i + 1][1] <= n /\ n < sections[i + 1][2])

\* Three instructions have been executed and each appended a node.
C25_Witness ==
    /\ pc = "for"
    /\ instr_index = 3
    /\ \A i \in 1..3 : sections[i][1] < sections[i][2]

\* C29: right after the main loop of an instruction commits a segment onto a
\* parent that is not a root, the parent has at most maximum_branches + 1
\* children, maximum_branches being that of the instruction.
C29_CommitBranchLimit ==
    [][pc = "grow" /\ Len(nodes') = Len(nodes) + 1 =>
          LET p == nodes'[Len(nodes')].parent_index IN
          is_segment(nodes'[p + 1]) => nodes'[p + 1].num_children <= morph.maximum_branches + 1
      ]_vars

\* The main loop has committed onto segments up to their limit of
\* maximum_branches + 1 children, and a root carries more children than that.
C29_Witness ==
    /\ pc = "grow"
    /\ \E i \in node_indices :
        /\ is_segment(nodes[i + 1])
        /\ nodes[i + 1].num_children = morph.maximum_branches + 1
        /\ \E c \in children_of(i) : nodes[c + 1].instruction_index = instr_index
    /\ \E r \in node_indices :
        /\ is_root(nodes[r + 1])
        /\ nodes[r + 1].num_children > morph.maximum_branches + 1

\* C28: the growth loop of every neurite instruction terminates: whenever
\* create is in the loop, it later leaves it with the queue empty.
C28_GrowthTerminates == (pc = "grow") ~> (pc # "grow" /\ potential = EmptyBag)

\* An axon has ended with a segment that carries two children: the second was
\* popped with a stale branch number and requeued before it was grown.
C28_Witness ==
    /\ pc = "done"
    /\ \E i \in node_indices :
        /\ is_segment(nodes[i + 1])
        /\ nodes[i + 1].num_children >= 2
        /\ unwrap(instructions[nodes[i + 1].instruction_index + 1].morphology).extend_before_branch

----------------------------------------------------------------------------
(* Properties of the interpolation of the diameter polynomials. *)

\* The table lengths below and above a query.
lengths_below(q) == {i \in 1..Len(dendrite_lengths) : dendrite_lengths[i] < q}

lengths_above(q) == {i \in 1..Len(dendrite_lengths) : dendrite_lengths[i] > q}

\* The linear interpolation by position of table entries lo and hi at q:
\* P_lo * (hi - q)/(hi - lo) + P_hi * (q - lo)/(hi - lo).
by_position(lo, hi, q) ==
    LET total == rat(dendrite_lengths[hi] - dendrite_lengths[lo])
        w_lo == f64_div(rat(dendrite_lengths[hi] - q), total)
        w_hi == f64_div(rat(q - dendrite_lengths[lo]), total)
    IN  add_arrays([k \in 1..3 |-> f64_mul(polynomial_at(lo - 1)[k], w_lo)],
                   [k \in 1..3 |-> f64_mul(polynomial_at(hi - 1)[k], w_hi)])

\* C26: the polynomial used for a terminal with path length q is the entry of
\* the table at an exact hit, the first entry below the table, the last entry
\* above it, and between two adjacent lengths lo < q < hi the interpolation by
\* position P_lo * (hi - q)/(hi - lo) + P_hi * (q - lo)/(hi - lo).
C26_InterpolatesByPosition ==
    interp_pc # "call" /\ interp_pc # "idle" =>
        LET q == interp_query
            below == lengths_below(q)
            above == lengths_above(q)
            last == Len(dendrite_lengths)
        IN  IF \E i \in 1..last : dendrite_lengths[i] = q
            THEN interp_out[1] = polynomial_at((CHOOSE i \in 1..last : dendrite_lengths[i] = q) - 1)
            ELSE IF below = {} THEN interp_out[1] = polynomial_at(0)
            ELSE IF above = {} THEN interp_out[1] = polynomial_at(last - 1)
            ELSE interp_out[1] = by_position(Cardinality(below), Cardinality(below) + 1, q)

----------------------------------------------------------------------------
(* Properties of the neighbor search of generate_points. *)

\* Whether two points at the squared distance dist are at most
\* min_dist = 0.5 * (volume / num_points)^(1/3) apart:
\* sqrt(dist) <= min_dist is 64 * dist^3 * num_points^2 <= volume^2.
euclidean_within_min_dist(self, dist) ==
    LET n == num_points(self)[1] * U16 + num_points(self)[2]
        v == volume(self)
        left == 64 * dist * dist * dist * n * n * v[2] * v[2]
    IN  IF v[3] = 1
        THEN left * PI_DEN * PI_DEN < PI_NUM * PI_NUM * v[1] * v[1]
        ELSE left <= v[1] * v[1]

\* The ordered pairs (i, j), j < i, of points at most min_dist apart.
pairs_within_min_dist(self, points) ==
    LET indices == 0..(Len(points) - 1) IN
    {pr \in indices \X indices :
        /\ pr[2] < pr[1]
        /\ LET d == sub(points[pr[1] + 1], points[pr[2] + 1]) IN
           euclidean_within_min_dist(self, dot(d, d))}

\* C27: with a radius query that includes its boundary, the neighbor pairs
\* the search of generate_points finds are exactly the ordered pairs (i, j),
\* j < i, of oversampled points whose Euclidean distance is at most min_dist.
C27_NeighborsWithinMinDist ==
    [][gp_pc = "sample" /\ gp_pc' = "thin" /\ kd_inclusive =>
          {<<nn[2], nn[3]>> : nn \in neighbors'}
              = pairs_within_min_dist(region, gp_carrier_points)]_vars

----------------------------------------------------------------------------
(* Properties of the application state. *)

\* The points generated from the parameters the regions of these names have
\* now, regions that do not exist left out.
RECURSIVE current_points(_)
current_points(names) ==
    IF names = <<>> THEN <<>>
    ELSE (IF names[1] \in DOMAIN app_carrier_points
          THEN generate_point(app_carrier_points[names[1]])
          ELSE <<>>)
         \o current_points(Tail(names))

\* C30: while the viewer shows the model, the carrier points update_nodes gave
\* to create for every instruction are points generated from the parameters
\* the regions the instruction names have now: no points of a region that was
\* replaced or discarded are reused.
C30_NoStalePoints ==
    (viewer /\ app_instructions # <<>>) =>
        /\ Len(app_nodes) = Len(app_instructions)
        /\ \A k \in 1..Len(app_instructions) :
              app_nodes[k].carrier_points = current_points(app_instructions[k].carrier_points)

----------------------------------------------------------------------------
(* Properties of import_save. *)

\* Two instructions, or two regions, of the save file have the same name.
duplicate_names(file) ==
    \/ \E j, k \in 1..Len(file.instructions) :
          j # k /\ file.instructions[j].name = file.instructions[k].name
    \/ \E j, k \in 1..Len(file.carrier_points) :
          j # k /\ file.carrier_points[j].name = file.carrier_points[k].name

\* An instruction of the save file lists a root that no instruction is named.
dangling_root(file) ==
    \E k \in 1..Len(file.instructions) :
        \E j \in 1..Len(GuiInstruction_roots(file.instructions[k])) :
            \A i \in 1..Len(file.instructions) :
                file.instructions[i].name # GuiInstruction_roots(file.instructions[k])[j]

\* Every region an instruction of the save file lists is in the save file.
regions_present(file) ==
    \A k \in 1..Len(file.instructions) :
        \A j \in 1..Len(file.instructions[k].carrier_points) :
            \E i \in 1..Len(file.carrier_points) :
                file.carrier_points[i].name = file.instructions[k].carrier_points[j]

\* C15: a save file in which two instructions, or two regions, have the same
\* name is a fatal error of import_save: it never returns instructions.
C15_DuplicateNamesFatal ==
    (import_pc \in {"ok", "error", "panic"} /\ save_file.parses /\ duplicate_names(save_file))
        => import_pc # "ok"

\* C16: a root name that no instruction of the save file has is dropped and
\* the resolution of the other names succeeds: import_save returns the
\* instructions, none of whose roots comes from the dangling name.
C16_DanglingRootsDropped ==
    (/\ import_pc \in {"ok", "error", "panic"}
     /\ save_file.parses
     /\ regions_present(save_file)
     /\ dangling_root(save_file))
        => /\ import_pc = "ok"
           /\ Len(import_out) = Len(save_file.instructions)

----------------------------------------------------------------------------
(* Properties of generate_points. *)

\* C18: for a sphere or a box asked for n points generate_points returns
\* exactly n points, whatever was drawn, every one of them inside the shape,
\* and the thinning never discards more than n of the 2n points drawn.
C18_ExactlyNumPoints ==
    volumetric(region) =>
        /\ ~usize_lt(region.num_points[2], u32(Cardinality(discard)))
           \/ region.num_points[1] > 0
        /\ gp_pc = "done" =>
              /\ u32(Len(generated)) = region.num_points
              /\ \A k \in 1..Len(generated) : contains(region, generated[k])

====
